---- MODULE Spec2Model ----
(***************************************************************************)
(* A model of the mpv-tools script modules: RandomCycle (a shuffled cycle  *)
(* over [0, count)), Stack (a bounded LIFO history), SelectionMenu (the    *)
(* on-screen selection menu) and Leapfrog (playlist jumps with an undo    *)
(* history).  Each module is a group of variables, one action per method,  *)
(* and specifications of its own.                                          *)
(***************************************************************************)
EXTENDS Integers, Sequences, FiniteSets, TLC

(***************************************************************************)
(* Bounds of the model.                                                    *)
(***************************************************************************)
\* Largest count given to RandomCycle.setCount.
MaxCount == 4
\* Largest maxSize given to the Stack constructor.
MaxSize == 3
\* Most pushes followed in one push/pop run, and the most entries an
\* unbounded stack is grown to.
MaxPush == 5
\* Entries pushed are drawn from 1..MaxElem.
MaxElem == 2
\* Longest option list given to the menu.
MaxLen == 12
\* The clock stops at MaxTime seconds.
MaxTime == 5
\* Longest playlist Leapfrog is run on.
MaxPlaylist == 3
\* Most random jumps of Leapfrog that are not undone.
MaxJumps == 2
\* The most entries of a playlist that changes.
MaxEntries == 2

VARIABLES
    \* RandomCycle (src/unnamed/part_009:37-41)
    _count,        \* this._count
    _shuffled,     \* this._shuffled, a JS array, here a sequence
    rcCall,        \* the last RandomCycle call: its name, argument and outcome
    everSetCount,  \* whether setCount has been called on this object
    \* Stack (src/scripts/modules.js/Stack.js:17-25)
    stackMade,     \* whether `new Stack(maxSize)` has returned an object
    stack,         \* this.stack
    position,      \* this.position
    maxSize,       \* this.maxSize
    stackHung,     \* a push is spinning in its eviction loop and never returns
    stCall,        \* the last Stack call: its name, argument and outcome
    prevStack,     \* this.stack as it was before the last Stack call
    pushLog,       \* the entries pushed since construction or clearStack,
                   \* while no push has followed a pop
    popLog,        \* what the pops after those pushes returned, in order
    phase,         \* "pushing", "popping" or "mixed" (a push followed a pop)
    \* SelectionMenu (src/unnamed/part_009:137-224)
    options,             \* this.options: the option texts, here their numbers
    selectionIdx,        \* this.selectionIdx
    hasRegisteredKeys,   \* this.hasRegisteredKeys: the menu is open
    isShowingMessage,    \* this.isShowingMessage
    currentMessageText,  \* this.currentMessageText
    currentMenuText,     \* this.currentMenuText
    originalFontSize,    \* this.originalFontSize
    menuInterval,        \* this.menuInterval
    stopMessageTimeout,  \* this.stopMessageTimeout
    autoCloseActiveAt,   \* this.autoCloseActiveAt
    maxLines,            \* this.maxLines
    menuFontSize,        \* this.menuFontSize
    autoCloseDelay,      \* this.autoCloseDelay
    \* mpv, as the menu uses it
    osdText,             \* the text mp.osd_message last put on screen
    osdFontSize,         \* the property osd-font-size
    hostKeys,            \* the actions whose forced key bindings are registered
    hostIntervals,       \* the handles of the running setInterval timers
    hostTimeouts,        \* the pending setTimeout timers: handle and due time
    now,                 \* mp.get_time(), in whole seconds
    cbLog,               \* the consumer's callbacks the last call or event invoked
    cbSeq,               \* its invocations of cbMenuShow and cbMenuHide, in order
    mnCall,              \* the last menu call or event, with the state it met
    fontAtOpen,          \* osd-font-size as it was when the menu last opened
    lastActivity,        \* when the menu last opened, accepted a key action or
                         \* ended a message
    keyBindings,         \* this.keyBindings: per action, repeatable and keys
    menuMade,            \* whether the constructor has returned a menu
    mnNew,               \* the last constructor call: its overrides, whether it threw
    osdWrites,           \* the texts the last call or event passed to mp.osd_message
    hostErrors,          \* what the last call or event passed to mp.msg.error
    mnThrew,             \* whether the last call or event threw to its caller
    fontBefore,          \* osd-font-size as it was when no menu was open last
    \* A second SelectionMenu in another script of the same mpv, as Colorbox
    \* makes one (src/unnamed/part_005:908-925)
    menu2,               \* its hasRegisteredKeys, originalFontSize, menuInterval
    \* Blackbox's Browser, whose menu is the SelectionMenu above
    \* (src/unnamed/part_005:70-92)
    currentPage,         \* this.currentPage: "files", "favorites", "playlist"
                         \* or "null"
    currentPageIdx,      \* this.currentPageIdx
    currentPath,         \* this.currentPath: a directory or "null"
    metaType,            \* this.menu.getMetadata().type: the page whose entries
                         \* the menu holds, or "null"
    dirState,            \* the file system: per directory "ok", "unreadable"
                         \* or "missing"
    bbCall,              \* the last Browser request, the state it met and
                         \* whether its navigateDir failed
    \* Leapfrog (src/scripts/Leapfrog.js:27-68); its history is the Stack and
    \* its randomOrder.cycle the RandomCycle above
    playlistPos,         \* this.playlistPos: the position Leapfrog last observed
    playlistCount,       \* this.playlistCount
    rebuild,             \* this.randomOrder.rebuild
    hostPlaylistPos,     \* mpv's property playlist-pos
    hostPlaylistCount,   \* mpv's property playlist-count
    posChanged,          \* playlist-pos changed and its observer has not run yet
    lfCall,              \* the last request or event of Leapfrog and its outcome
    jumpLog,             \* where mpv stood before each random jump that moved
                         \* it and has not been undone since, oldest first
    undone               \* how many undos have moved mpv since the last random
                         \* jump that moved it

rcVars == <<_count, _shuffled, rcCall, everSetCount>>
stVars == <<stackMade, stack, position, maxSize, stackHung, stCall, prevStack, pushLog, popLog, phase>>
mnVars == <<options, selectionIdx, hasRegisteredKeys, isShowingMessage, currentMessageText, currentMenuText, originalFontSize, menuInterval, stopMessageTimeout, autoCloseActiveAt, maxLines, menuFontSize, autoCloseDelay, osdText, osdFontSize, hostKeys, hostIntervals, hostTimeouts, now, cbLog, cbSeq, mnCall, fontAtOpen, lastActivity, keyBindings, menuMade, mnNew, osdWrites, hostErrors, mnThrew, fontBefore>>
m2Vars == <<menu2>>
bbVars == <<currentPage, currentPageIdx, currentPath, metaType, dirState, bbCall>>
lfVars == <<playlistPos, playlistCount, rebuild, hostPlaylistPos, hostPlaylistCount, posChanged, lfCall, jumpLog, undone>>
vars == <<rcVars, stVars, mnVars, lfVars, m2Vars, bbVars>>

\* What a call on one object leaves alone: the other objects.
RcFrame == UNCHANGED <<stVars, mnVars, lfVars, m2Vars, bbVars>>
StFrame == UNCHANGED <<rcVars, mnVars, lfVars, m2Vars, bbVars>>
MnFrame == UNCHANGED <<rcVars, stVars, lfVars, m2Vars, bbVars>>

(***************************************************************************)
(* JavaScript values.  A number argument is a record: kind "int" with the  *)
(* integer n, kind "frac" for n + 0.5, kind "other" for NaN, undefined or  *)
(* a string.  A call's outcome is a record: it threw, or returned val.     *)
(***************************************************************************)
Num(n) == [kind |-> "int", n |-> n]
Frac(n) == [kind |-> "frac", n |-> n]
Other == [kind |-> "other", n |-> 0]

\* `undefined`, as an array read out of range or pop() on an empty stack gives it.
Undefined == -1

Ok(v) == [threw |-> FALSE, val |-> v]
Throw == [threw |-> TRUE, val |-> Undefined]

\* Utils.isInt: whether the value is a whole number.
isInt(value) == value.kind = "int"

\* arr[i] of a JS array (0-based), undefined out of range.
At(arr, i) == IF i >= 0 /\ i < Len(arr) THEN arr[i + 1] ELSE Undefined

\* Array.prototype.indexOf: the first 0-based index holding x, or -1.
indexOf(arr, x) ==
    IF \E i \in 1..Len(arr) : arr[i] = x
    THEN (CHOOSE i \in 1..Len(arr) : arr[i] = x /\ \A j \in 1..(i - 1) : arr[j] # x) - 1
    ELSE -1

\* Utils.shuffle: the array's entries in any order (every order is possible).
shuffle(arr) ==
    LET n == Len(arr)
        perms == {p \in [1..n -> 1..n] : \A i, j \in 1..n : p[i] = p[j] => i = j}
    IN {[i \in 1..n |-> arr[p[i]]] : p \in perms}

\* A fill loop that pushes 0 on every round.
Iota_AllZero(n) == [i \in 1..n |-> 0]

\* [0, 1, ..., n-1], as setCount's loop pushes it; empty for n <= 0.
Iota(n) == [i \in 1..n |-> i - 1]

(***************************************************************************)
(* RandomCycle                                                             *)
(***************************************************************************)
\* RandomCycle.prototype._findIdx: the position of idx in the shuffled array.
_findIdx(idx) ==
    IF ~isInt(idx) \/ idx.n < 0 \/ idx.n >= _count
    THEN Throw
    ELSE LET foundAt == indexOf(_shuffled, idx.n)
         IN IF foundAt < 0 THEN Throw ELSE Ok(foundAt)

\* A getNext that answers with the first entry where _findIdx throws.
getNext_FallbackOnThrow(fromIdx) ==
    LET current == _findIdx(fromIdx)
    IN IF current.threw THEN Ok(At(_shuffled, 0))
       ELSE LET next == IF current.val + 1 >= _count THEN 0 ELSE current.val + 1
            IN Ok(At(_shuffled, next))

\* A getNext whose wrap check is off by one: the last position is never wrapped.
getNext_WrapOffByOne(fromIdx) ==
    LET current == _findIdx(fromIdx)
    IN IF current.threw THEN Throw
       ELSE LET next == IF current.val + 1 > _count THEN 0 ELSE current.val + 1
            IN Ok(At(_shuffled, next))

\* RandomCycle.prototype.getNext
getNext(fromIdx) ==
    LET current == _findIdx(fromIdx)
    IN IF current.threw THEN Throw
       ELSE LET next == IF current.val + 1 >= _count THEN 0 ELSE current.val + 1
            IN Ok(At(_shuffled, next))

\* A getPrevious that wraps to position 0 instead of the last position.
getPrevious_WrapToFirst(fromIdx) ==
    LET current == _findIdx(fromIdx)
    IN IF current.threw THEN Throw
       ELSE LET previous == IF current.val - 1 < 0 THEN 0 ELSE current.val - 1
            IN Ok(At(_shuffled, previous))

\* RandomCycle.prototype.getPrevious
getPrevious(fromIdx) ==
    LET current == _findIdx(fromIdx)
    IN IF current.threw THEN Throw
       ELSE LET previous == IF current.val - 1 < 0 THEN _count - 1 ELSE current.val - 1
            IN Ok(At(_shuffled, previous))

\* The arguments tried for setCount and for the queries.
CountArgs == {Num(n) : n \in -1..MaxCount} \cup {Frac(1), Other}
QueryArgs == {Num(n) : n \in -1..MaxCount} \cup {Frac(0), Other}

RcInit ==
    /\ _count = 0
    /\ _shuffled = <<>>
    /\ rcCall = [op |-> "new", arg |-> Other, out |-> Ok(Undefined)]
    /\ everSetCount = FALSE

\* RandomCycle.prototype.setCount
SetCount(count) ==
    /\ RcFrame
    /\ everSetCount' = TRUE
    /\ IF ~isInt(count)
       THEN /\ rcCall' = [op |-> "setCount", arg |-> count, out |-> Throw]
            /\ UNCHANGED <<_count, _shuffled>>
       ELSE /\ _count' = count.n
            /\ _shuffled' \in shuffle(Iota(count.n))
            /\ rcCall' = [op |-> "setCount", arg |-> count, out |-> Ok(Undefined)]

\* RandomCycle.prototype.shuffleCycle
ShuffleCycle ==
    /\ RcFrame
    /\ _shuffled' \in shuffle(_shuffled)
    /\ rcCall' = [op |-> "shuffleCycle", arg |-> Other, out |-> Ok(Undefined)]
    /\ UNCHANGED <<_count, everSetCount>>

\* A call of getNext: it assigns nothing, the caller sees the outcome.
GetNext(fromIdx) ==
    /\ RcFrame
    /\ rcCall' = [op |-> "getNext", arg |-> fromIdx, out |-> getNext(fromIdx)]
    /\ UNCHANGED <<_count, _shuffled, everSetCount>>

\* A call of getPrevious.
GetPrevious(fromIdx) ==
    /\ RcFrame
    /\ rcCall' = [op |-> "getPrevious", arg |-> fromIdx, out |-> getPrevious(fromIdx)]
    /\ UNCHANGED <<_count, _shuffled, everSetCount>>

RcNext ==
    \/ \E c \in CountArgs : SetCount(c)
    \/ ShuffleCycle
    \/ \E v \in QueryArgs : GetNext(v)
    \/ \E v \in QueryArgs : GetPrevious(v)

(***************************************************************************)
(* Stack                                                                   *)
(***************************************************************************)
\* A constructor that forgets to refuse a size of 0.
StackThrows_ZeroAllowed(size) == ~isInt(size)

\* The Stack constructor's check: whether `new Stack(size)` throws.
StackThrows(size) == ~isInt(size) \/ size.n = 0

\* An eviction loop that pops the newest entry instead of shifting the oldest.
RECURSIVE evict_DropNewest(_, _)
evict_DropNewest(arr, max) ==
    IF Len(arr) > max THEN evict_DropNewest(SubSeq(arr, 1, Len(arr) - 1), max) ELSE arr

\* An eviction loop that lets one entry too many stay.
RECURSIVE evict_OffByOne(_, _)
evict_OffByOne(arr, max) ==
    IF Len(arr) > max + 1 THEN evict_OffByOne(Tail(arr), max) ELSE arr

\* push's loop `while (this.stack.length > this.maxSize) this.stack.shift()`,
\* for a max it ends with (max >= 0).
RECURSIVE evict(_, _)
evict(arr, max) ==
    IF Len(arr) > max THEN evict(Tail(arr), max) ELSE arr

\* A push that runs the eviction loop for maxSize = -1 too.
PushHangs_NoUnlimitedCheck == maxSize < 0

\* Whether push's loop never ends: it runs unless maxSize is -1, and its
\* condition length > maxSize stays true of the emptied array when maxSize < 0
\* (shift() of an empty array removes nothing).
PushHangs == maxSize # -1 /\ maxSize < 0

\* this.stack after push(elem) returns.
pushed(elem) ==
    LET arr == Append(stack, elem)
    IN IF maxSize # -1 THEN evict(arr, maxSize) ELSE arr

\* Stack.prototype.getCount
getCount == position + 1

\* Stack.prototype.isEmpty
isEmpty == position < 0

\* The arguments tried for the constructor, and the entries pushed.
SizeArgs == {Num(n) : n \in -2..MaxSize} \cup {Frac(1), Other}
Elems == 1..MaxElem

StInit ==
    /\ stackMade = FALSE
    /\ stack = <<>>
    /\ position = -1
    /\ maxSize = 0
    /\ stackHung = FALSE
    /\ stCall = [op |-> "none", arg |-> Other, out |-> Ok(Undefined)]
    /\ prevStack = <<>>
    /\ pushLog = <<>>
    /\ popLog = <<>>
    /\ phase = "pushing"

\* new Stack(size): an object, or a throw that leaves the caller without one.
StackNew(size) ==
    /\ StFrame
    /\ ~stackMade
    /\ IF StackThrows(size)
       THEN /\ stCall' = [op |-> "new", arg |-> size, out |-> Throw]
            /\ UNCHANGED <<stackMade, stack, position, maxSize>>
       ELSE /\ stackMade' = TRUE
            /\ stack' = <<>>
            /\ position' = -1
            /\ maxSize' = size.n
            /\ stCall' = [op |-> "new", arg |-> size, out |-> Ok(Undefined)]
    /\ UNCHANGED <<stackHung, prevStack, pushLog, popLog, phase>>

\* Stack.prototype.push
Push(elem) ==
    /\ StFrame
    /\ stackMade /\ ~stackHung
    /\ Len(stack) < MaxPush /\ Len(pushLog) < MaxPush
    /\ prevStack' = stack
    /\ stCall' = [op |-> "push", arg |-> Num(elem), out |-> Ok(Undefined)]
    /\ IF PushHangs
       THEN /\ stackHung' = TRUE
            /\ stack' = <<>>
            /\ UNCHANGED position
       ELSE /\ stack' = pushed(elem)
            /\ position' = Len(stack') - 1
            /\ UNCHANGED stackHung
    /\ phase' = IF phase = "pushing" THEN "pushing" ELSE "mixed"
    /\ pushLog' = IF phase = "pushing" THEN Append(pushLog, elem) ELSE <<>>
    /\ popLog' = <<>>
    /\ UNCHANGED <<stackMade, maxSize>>

\* Stack.prototype.pop
Pop ==
    /\ StFrame
    /\ stackMade /\ ~stackHung
    /\ Len(popLog) <= MaxPush
    /\ prevStack' = stack
    /\ LET popped == IF position < 0 THEN Undefined ELSE At(stack, Len(stack) - 1)
       IN /\ stCall' = [op |-> "pop", arg |-> Other, out |-> Ok(popped)]
          /\ popLog' = IF phase = "mixed" THEN <<>> ELSE Append(popLog, popped)
    /\ IF position < 0
       THEN UNCHANGED <<stack, position>>
       ELSE /\ stack' = SubSeq(stack, 1, Len(stack) - 1)
            /\ position' = Len(stack') - 1
    /\ phase' = IF phase = "mixed" THEN "mixed" ELSE "popping"
    /\ UNCHANGED <<stackMade, maxSize, stackHung, pushLog>>

\* A clearStack that empties the array and leaves position as it was.
ClearStack_KeepsPosition ==
    /\ StFrame
    /\ stackMade /\ ~stackHung
    /\ prevStack' = stack
    /\ stCall' = [op |-> "clear", arg |-> Other, out |-> Ok(Undefined)]
    /\ stack' = <<>>
    /\ phase' = "pushing"
    /\ pushLog' = <<>>
    /\ popLog' = <<>>
    /\ UNCHANGED <<position, stackMade, maxSize, stackHung>>

\* Stack.prototype.clearStack
ClearStack ==
    /\ StFrame
    /\ stackMade /\ ~stackHung
    /\ prevStack' = stack
    /\ stCall' = [op |-> "clear", arg |-> Other, out |-> Ok(Undefined)]
    /\ stack' = <<>>
    /\ position' = -1
    /\ phase' = "pushing"
    /\ pushLog' = <<>>
    /\ popLog' = <<>>
    /\ UNCHANGED <<stackMade, maxSize, stackHung>>

StNext ==
    \/ \E size \in SizeArgs : StackNew(size)
    \/ \E elem \in Elems : Push(elem)
    \/ Pop
    \/ ClearStack

(***************************************************************************)
(* Leapfrog (src/scripts/Leapfrog.js)                                      *)
(*                                                                         *)
(* mpv holds the playlist position; Leapfrog keeps the copy its observer   *)
(* of playlist-pos stores.  mpv hands a script its events one at a time:   *)
(* a request is run once the observer has run for the change before it.    *)
(***************************************************************************)
\* The size of the history: new Stack(200).
HistorySize == 200

\* The offsets of a request: a name, or what parseInt makes of the rest.
Named(name) == [kind |-> "named", n |-> 0, name |-> name]
OffsetArgs ==
    {Named("undo-random"), Named("random"), Named("first"), Named("last"),
     Num(1), Num(-1), Num(0), Other}

\* The record kept of the last request or event: what it was, how jump ended
\* ("moved": it set playlist-pos to pos), and the message it put on screen.
LfCall(op, offset, silent, out, pos, osd) ==
    [op |-> op, offset |-> offset, silent |-> silent, out |-> out, pos |-> pos, osd |-> osd]

\* No Leapfrog is running.
LfNone ==
    /\ playlistPos = 0
    /\ playlistCount = 0
    /\ rebuild = TRUE
    /\ hostPlaylistPos = 0
    /\ hostPlaylistCount = 0
    /\ posChanged = FALSE
    /\ lfCall = LfCall("none", Other, FALSE, "", 0, "")
    /\ jumpLog = <<>>
    /\ undone = 0

\* new Leapfrog(globalOpts), on a playlist of up to MaxPlaylist entries.
LfInit ==
    /\ playlistCount \in 1..MaxPlaylist
    /\ hostPlaylistCount = playlistCount
    /\ hostPlaylistPos \in 0..(playlistCount - 1)
    /\ playlistPos = hostPlaylistPos
    /\ rebuild = TRUE
    /\ posChanged = FALSE
    /\ lfCall = LfCall("new", Other, FALSE, "", 0, "")
    /\ jumpLog = <<>>
    /\ undone = 0
    /\ stackMade = TRUE
    /\ stack = <<>>
    /\ position = -1
    /\ maxSize = HistorySize
    /\ stackHung = FALSE
    /\ stCall = [op |-> "new", arg |-> Num(HistorySize), out |-> Ok(Undefined)]
    /\ prevStack = <<>>
    /\ pushLog = <<>>
    /\ popLog = <<>>
    /\ phase = "pushing"

\* jump's clamp of the new position to the edges of the playlist.
Clamp(newPosition) ==
    IF newPosition < 0 THEN 0
    ELSE IF newPosition >= playlistCount THEN playlistCount - 1
    ELSE newPosition

\* A jump that saves the old position whether or not the position changes.
SavesEntry_Always(hasEntry, newPosition) == hasEntry

\* jump's test before history.push: there is an entry and the position differs.
SavesEntry(hasEntry, newPosition) == hasEntry /\ newPosition # playlistPos

\* The end of jump, from the clamp on, `history` being this.history's array
\* by then: the entry {pos: this.playlistPos}, if the request made one, is
\* pushed when the position differs, playlist-pos is set, and the feedback
\* is put on screen unless silenced.  A position past the end of mpv's own
\* playlist (the count has shrunk and its observer has not run yet) is one
\* mpv either refuses or answers by having no current entry (-1).
Move(offset, silent, history, hasEntry, newPosition0, msgPrefix) ==
    LET newPosition == Clamp(newPosition0)
    IN /\ stack' = IF SavesEntry(hasEntry, newPosition)
                   THEN pushed(playlistPos)
                   ELSE history
       /\ position' = Len(stack') - 1
       /\ hostPlaylistPos' \in IF newPosition < hostPlaylistCount
                               THEN {newPosition}
                               ELSE {hostPlaylistPos, -1}
       /\ posChanged' = (hostPlaylistPos' # hostPlaylistPos)
       /\ lfCall' = LfCall("jump", offset, silent, "moved", newPosition,
                           IF silent THEN "" ELSE msgPrefix)

\* jump returns without a move: nothing but `history` and the screen can differ.
Return(offset, silent, history, out, osd) ==
    /\ stack' = history
    /\ position' = Len(stack') - 1
    /\ lfCall' = LfCall("jump", offset, silent, out, hostPlaylistPos, osd)
    /\ UNCHANGED <<hostPlaylistPos, posChanged>>

\* Leapfrog.prototype.jump(offset, rawOptions), rawOptions being 'silent' or
\* nothing.
Jump(offset, silent) ==
    /\ ~posChanged
    /\ lfCall.op # "none"
    /\ UNCHANGED <<mnVars, m2Vars, bbVars, playlistPos, playlistCount, hostPlaylistCount>>
    /\ UNCHANGED <<stackMade, maxSize, stackHung, stCall, prevStack, pushLog, popLog, phase>>
    /\ UNCHANGED rcCall
    /\ LET random == offset = Named("random")
           setsCount == playlistCount # 0 /\ random /\ rebuild
       IN /\ _count' = IF setsCount THEN playlistCount ELSE _count
          /\ _shuffled' \in IF setsCount THEN shuffle(Iota(playlistCount)) ELSE {_shuffled}
          /\ everSetCount' = (everSetCount \/ setsCount)
          /\ IF playlistCount = 0
             THEN Return(offset, silent, stack, "empty", "") /\ UNCHANGED rebuild
             ELSE CASE offset = Named("undo-random") ->
                         LET previous == IF position < 0
                                         THEN Undefined
                                         ELSE At(stack, Len(stack) - 1)
                             history == IF position < 0
                                        THEN stack
                                        ELSE SubSeq(stack, 1, Len(stack) - 1)
                         IN /\ UNCHANGED rebuild
                            /\ IF previous = Undefined
                               THEN Return(offset, silent, history, "nohistory",
                                           IF silent THEN "" ELSE "Undo: No history.")
                               ELSE Move(offset, silent, history, FALSE, previous, "Undo:")
                    [] random ->
                         \E from \in {playlistPos} :
                            LET next == getNext(Num(from))'
                            IN IF next.threw
                               THEN /\ rebuild' = TRUE
                                    /\ Return(offset, silent, stack, "failed", "")
                               ELSE /\ rebuild' = FALSE
                                    /\ Move(offset, silent, stack, TRUE, next.val, "Random:")
                    [] offset = Named("first") ->
                         /\ UNCHANGED rebuild
                         /\ Move(offset, silent, stack, FALSE, 0, "First:")
                    [] offset = Named("last") ->
                         /\ UNCHANGED rebuild
                         /\ Move(offset, silent, stack, FALSE, playlistCount - 1, "Last:")
                    [] OTHER ->
                         /\ UNCHANGED rebuild
                         /\ IF offset.kind # "int" \/ offset.n = 0
                            THEN Return(offset, silent, stack, "invalid",
                                        IF silent THEN "" ELSE "Jump: Invalid offset number.")
                            ELSE Move(offset, silent, stack, FALSE,
                                      playlistPos + offset.n, "Jump:")
    /\ jumpLog' = IF offset = Named("random") /\ hostPlaylistPos' # hostPlaylistPos
                  THEN Append(jumpLog, hostPlaylistPos)
                  ELSE IF offset = Named("undo-random") /\ jumpLog # <<>>
                       THEN SubSeq(jumpLog, 1, Len(jumpLog) - 1)
                       ELSE jumpLog
    /\ undone' = IF offset = Named("random") /\ hostPlaylistPos' # hostPlaylistPos
                 THEN 0
                 ELSE IF offset = Named("undo-random") /\ jumpLog # <<>>
                      THEN undone + 1
                      ELSE undone

\* The observer of playlist-pos runs: self.playlistPos = value.
ObservePos ==
    /\ posChanged
    /\ playlistPos' = hostPlaylistPos
    /\ posChanged' = FALSE
    /\ lfCall' = LfCall("observe", Other, FALSE, "", hostPlaylistPos, "")
    /\ UNCHANGED <<playlistCount, rebuild, hostPlaylistPos, hostPlaylistCount, jumpLog, undone>>
    /\ UNCHANGED <<rcVars, stVars, mnVars, m2Vars, bbVars>>

\* The position is changed by hand: the user picks another playlist entry.
HostSetPos(pos) ==
    /\ lfCall.op # "none"
    /\ ~posChanged
    /\ pos # hostPlaylistPos
    /\ hostPlaylistPos' = pos
    /\ posChanged' = TRUE
    /\ lfCall' = LfCall("host", Other, FALSE, "", pos, "")
    /\ UNCHANGED <<playlistPos, playlistCount, rebuild, hostPlaylistCount, jumpLog, undone>>
    /\ UNCHANGED <<rcVars, stVars, mnVars, m2Vars, bbVars>>

\* Leapfrog on a playlist whose count stays: undo requests, silent or not,
\* random jumps, at most MaxJumps of them not undone, requests with the other
\* offsets, the observer of playlist-pos, and positions changed by hand.
LfNext ==
    \/ \E silent \in BOOLEAN : Jump(Named("undo-random"), silent)
    \/ Len(jumpLog) < MaxJumps /\ Jump(Named("random"), FALSE)
    \/ \E offset \in OffsetArgs \ {Named("undo-random"), Named("random")} : Jump(offset, FALSE)
    \/ ObservePos
    \/ \E pos \in 0..(playlistCount - 1) : HostSetPos(pos)

\* mpv's playlist is changed (files are queued, added or removed): it holds
\* `count` entries and its current entry is `pos`, -1 saying there is none.
\* The observers run later, one at a time.
HostSetPlaylist(count, pos) ==
    /\ lfCall.op # "none"
    /\ ~posChanged
    /\ hostPlaylistCount = playlistCount
    /\ count # hostPlaylistCount
    /\ hostPlaylistCount' = count
    /\ hostPlaylistPos' = pos
    /\ posChanged' = (pos # playlistPos)
    /\ lfCall' = LfCall("playlist", Other, FALSE, "", pos, "")
    /\ UNCHANGED <<playlistPos, playlistCount, rebuild, jumpLog, undone>>
    /\ UNCHANGED <<rcVars, stVars, mnVars, m2Vars, bbVars>>

\* The observer of playlist-count with `flag` stored in randomOrder.rebuild.
CountObserver(flag) ==
    /\ hostPlaylistCount # playlistCount
    /\ playlistCount' = hostPlaylistCount
    /\ stack' = <<>>
    /\ position' = -1
    /\ rebuild' = flag
    /\ jumpLog' = <<>>
    /\ undone' = 0
    /\ lfCall' = LfCall("count", Other, FALSE, "", hostPlaylistPos, "")
    /\ UNCHANGED <<playlistPos, hostPlaylistPos, hostPlaylistCount, posChanged>>
    /\ UNCHANGED <<stackMade, maxSize, stackHung, stCall, prevStack, pushLog, popLog, phase>>
    /\ UNCHANGED <<rcVars, mnVars, m2Vars, bbVars>>

\* An observer of playlist-count that leaves the cycle as it is.
ObserveCount_KeepsCycle == CountObserver(rebuild)

\* The observer of playlist-count runs: self.playlistCount = value, the
\* history is cleared and the cycle is marked for rebuilding.
ObserveCount == CountObserver(TRUE)

\* The positions a playlist of `count` entries can be at.
HostPositions(count) == IF count = 0 THEN {-1} ELSE 0..(count - 1)

\* Leapfrog on a playlist that changes: the requests of LfNext, the random
\* jumps while the history holds fewer than MaxJumps entries, changes of the
\* playlist, and the two observers in either order.
LfCountNext ==
    \/ \E silent \in BOOLEAN : Jump(Named("undo-random"), silent)
    \/ Len(stack) < MaxJumps /\ Jump(Named("random"), FALSE)
    \/ \E offset \in OffsetArgs \ {Named("undo-random"), Named("random")} : Jump(offset, FALSE)
    \/ ObservePos
    \/ ObserveCount
    \/ \E pos \in HostPositions(hostPlaylistCount) : HostSetPos(pos)
    \/ \E count \in 0..MaxEntries : \E pos \in HostPositions(count) : HostSetPlaylist(count, pos)

(***************************************************************************)
(* SelectionMenu                                                           *)
(*                                                                         *)
(* The methods call one another and the consumer's callbacks call back     *)
(* into them, so each method is an operator from the state it is entered   *)
(* with to the state it returns with: a record `w` of the menu's fields    *)
(* and of the host's state it reads and writes (the OSD text, the          *)
(* osd-font-size property, the forced key bindings, the timers).  An       *)
(* action is one event of the host or one call of the consumer: it applies *)
(* the handler to the current state and stores what it returns.            *)
(***************************************************************************)
\* `null`, as a font size, an interval handle or a timeout handle.
Null == 0

\* The defaults of the constructor's settings.
DefaultMaxLines == 10
DefaultMenuFontSize == 40
DefaultAutoCloseDelay == 5
\* The step of Menu-Up-Fast and Menu-Down-Fast.
FastStep == 10
\* The duration of the help message and showMessage's default, in ms.
HelpDurationMs == 5000
DefaultDurationMs == 800
\* mpv's osd-font-size when the script starts (55 is mpv's own default).
HostFontSizes == {55}

\* The ten actions of the default binding table.
NavActions == {"Menu-Up", "Menu-Down", "Menu-Up-Fast", "Menu-Down-Fast"}
CbActions == {"Menu-Left", "Menu-Right", "Menu-Open", "Menu-Undo"}
Actions == NavActions \cup CbActions \cup {"Menu-Help", "Menu-Close"}

\* Texts: the empty string, a message, or a rendered menu (its option lines).
EmptyText == [kind |-> "empty"]
MsgText(id) == [kind |-> "msg", id |-> id]
MenuText(lines) == [kind |-> "menu", lines |-> lines]

\* The fields and the host state as one record.
World ==
    [options |-> options, selectionIdx |-> selectionIdx,
     hasRegisteredKeys |-> hasRegisteredKeys,
     isShowingMessage |-> isShowingMessage,
     currentMessageText |-> currentMessageText,
     currentMenuText |-> currentMenuText,
     originalFontSize |-> originalFontSize,
     menuInterval |-> menuInterval,
     stopMessageTimeout |-> stopMessageTimeout,
     autoCloseActiveAt |-> autoCloseActiveAt,
     osdText |-> osdText, osdFontSize |-> osdFontSize,
     hostKeys |-> hostKeys, hostIntervals |-> hostIntervals,
     hostTimeouts |-> hostTimeouts, cbLog |-> {}, cbSeq |-> <<>>,
     osdWrites |-> <<>>, hostErrors |-> <<>>, threw |-> FALSE]

\* The state a handler returned, stored.
Commit(w) ==
    /\ options' = w.options
    /\ selectionIdx' = w.selectionIdx
    /\ hasRegisteredKeys' = w.hasRegisteredKeys
    /\ isShowingMessage' = w.isShowingMessage
    /\ currentMessageText' = w.currentMessageText
    /\ currentMenuText' = w.currentMenuText
    /\ originalFontSize' = w.originalFontSize
    /\ menuInterval' = w.menuInterval
    /\ stopMessageTimeout' = w.stopMessageTimeout
    /\ autoCloseActiveAt' = w.autoCloseActiveAt
    /\ osdText' = w.osdText
    /\ osdFontSize' = w.osdFontSize
    /\ hostKeys' = w.hostKeys
    /\ hostIntervals' = w.hostIntervals
    /\ hostTimeouts' = w.hostTimeouts
    /\ cbLog' = w.cbLog
    /\ cbSeq' = w.cbSeq
    /\ osdWrites' = w.osdWrites
    /\ hostErrors' = w.hostErrors
    /\ mnThrew' = w.threw

\* A handle the host has not handed out: the smallest number above 0 not in use.
NewId(used) == CHOOSE i \in 1..(Cardinality(used) + 1) : i \notin used

\* setTimeout's delay in whole seconds of the clock: it fires no earlier.
MsToTicks(ms) == (ms + 999) \div 1000

\* SelectionMenu's settings checks (maxLines, menuFontSize, autoCloseDelay).
MaxLinesSetting(v) ==
    IF v.kind \in {"int", "frac"} /\ v.n >= 3 THEN v.n ELSE DefaultMaxLines
MenuFontSizeSetting(v) ==
    IF v.kind \in {"int", "frac"} /\ v.n >= 1 THEN v.n ELSE DefaultMenuFontSize
\* (A delay that is no whole number of seconds is kept as it is by the code;
\* none is among the settings tried.)
AutoCloseDelaySetting(v) ==
    IF v.kind = "int" /\ v.n >= 0 THEN v.n ELSE DefaultAutoCloseDelay

\* SelectionMenu.prototype.isMenuActive
isMenuActive(w) == w.hasRegisteredKeys

\* SelectionMenu.prototype._disableAutoCloseTimeout
_disableAutoCloseTimeout(w, forceLock) ==
    [w EXCEPT !.autoCloseActiveAt = IF forceLock THEN -2 ELSE -1]

\* An _updateAutoCloseTimeout that a forced unlock does not get past the lock.
_updateAutoCloseTimeout_NoForce(w, forceUnlock) ==
    IF w.autoCloseActiveAt = -2
    THEN w
    ELSE [w EXCEPT !.autoCloseActiveAt = now]

\* SelectionMenu.prototype._updateAutoCloseTimeout
_updateAutoCloseTimeout(w, forceUnlock) ==
    IF ~forceUnlock /\ w.autoCloseActiveAt = -2
    THEN w
    ELSE [w EXCEPT !.autoCloseActiveAt = now]

\* A _renderActiveText that writes the menu text over a message.
_renderActiveText_MenuTextOnly(w) ==
    IF ~isMenuActive(w)
    THEN w
    ELSE [w EXCEPT !.osdText = w.currentMenuText,
                   !.osdWrites = Append(@, w.currentMenuText)]

\* A _renderActiveText that writes whether or not the menu is open.
_renderActiveText_WhenClosed(w) ==
    LET msg == IF w.isShowingMessage
               THEN w.currentMessageText
               ELSE w.currentMenuText
    IN [w EXCEPT !.osdText = msg, !.osdWrites = Append(@, msg)]

\* SelectionMenu.prototype._renderActiveText
_renderActiveText(w) ==
    IF ~isMenuActive(w)
    THEN w
    ELSE LET msg == IF w.isShowingMessage
                    THEN w.currentMessageText
                    ELSE w.currentMenuText
         IN [w EXCEPT !.osdText = msg, !.osdWrites = Append(@, msg)]

\* A stopMessage that clears the timeout and leaves the message showing.
stopMessage_KeepsMessage(w, preventRender) ==
    LET w1 == IF w.stopMessageTimeout # Null
              THEN [w EXCEPT !.hostTimeouts = {t \in @ : t.id # w.stopMessageTimeout},
                             !.stopMessageTimeout = Null]
              ELSE w
        w3 == IF ~preventRender THEN _renderActiveText(w1) ELSE w1
    IN _updateAutoCloseTimeout(w3, TRUE)

\* SelectionMenu.prototype.stopMessage
stopMessage(w, preventRender) ==
    LET w1 == IF w.stopMessageTimeout # Null
              THEN [w EXCEPT !.hostTimeouts = {t \in @ : t.id # w.stopMessageTimeout},
                             !.stopMessageTimeout = Null]
              ELSE w
        w2 == [w1 EXCEPT !.isShowingMessage = FALSE, !.currentMessageText = EmptyText]
        w3 == IF ~preventRender THEN _renderActiveText(w2) ELSE w2
    IN _updateAutoCloseTimeout(w3, TRUE)

\* An _unregisterMenuKeys that removes the binding of each action's first key.
_unregisterMenuKeys_FirstKeyOnly(w) ==
    IF ~w.hasRegisteredKeys
    THEN w
    ELSE [w EXCEPT !.hostKeys = {b \in @ : b.key # keyBindings[b.action].keys[1]},
                   !.hasRegisteredKeys = FALSE]

\* A _processBindings that hands out every binding as not repeatable.
_processBindings_NeverRepeatable ==
    UNION {{[action |-> a, key |-> keyBindings[a].keys[i], repeatable |-> FALSE] :
               i \in 1..Len(keyBindings[a].keys)} : a \in DOMAIN keyBindings}

\* SelectionMenu.prototype._processBindings: what the callback is called
\* with, once per key of each action of the table.
_processBindings ==
    UNION {{[action |-> a, key |-> keyBindings[a].keys[i],
             repeatable |-> keyBindings[a].repeatable] :
               i \in 1..Len(keyBindings[a].keys)} : a \in DOMAIN keyBindings}

\* SelectionMenu.prototype._registerMenuKeys: one forced binding per key.
_registerMenuKeys(w) ==
    IF w.hasRegisteredKeys
    THEN w
    ELSE [w EXCEPT !.hostKeys = @ \cup _processBindings, !.hasRegisteredKeys = TRUE]

\* SelectionMenu.prototype._unregisterMenuKeys
_unregisterMenuKeys(w) ==
    IF ~w.hasRegisteredKeys
    THEN w
    ELSE [w EXCEPT !.hostKeys = @ \ _processBindings, !.hasRegisteredKeys = FALSE]

\* A hideMenu that does not write the saved font size back.
hideMenu_KeepsFont(w, cbHide) ==
    IF ~isMenuActive(w)
    THEN w
    ELSE LET w1 == [w EXCEPT !.osdText = EmptyText, !.osdWrites = Append(@, EmptyText)]
             w3 == _unregisterMenuKeys(w1)
             w4 == IF w3.menuInterval # Null
                   THEN [w3 EXCEPT !.hostIntervals = @ \ {w3.menuInterval},
                                   !.menuInterval = Null]
                   ELSE w3
             w5 == stopMessage(w4, TRUE)
         IN IF cbHide # "null" THEN [w5 EXCEPT !.cbLog = @ \cup {"hide"}] ELSE w5

\* A hideMenu that forgets the redraw interval without clearing it.
hideMenu_KeepsInterval(w, cbHide) ==
    IF ~isMenuActive(w)
    THEN w
    ELSE LET w1 == [w EXCEPT !.osdText = EmptyText, !.osdWrites = Append(@, EmptyText)]
             w2 == IF w1.originalFontSize # Null
                   THEN [w1 EXCEPT !.osdFontSize = w1.originalFontSize]
                   ELSE w1
             w3 == _unregisterMenuKeys(w2)
             w4 == [w3 EXCEPT !.menuInterval = Null]
             w5 == stopMessage(w4, TRUE)
         IN IF cbHide # "null" THEN [w5 EXCEPT !.cbLog = @ \cup {"hide"}] ELSE w5

\* A hideMenu that runs the close callback of a menu that is closed already.
hideMenu_CallbackWhenClosed(w, cbHide) ==
    LET w1 == [w EXCEPT !.osdText = EmptyText, !.osdWrites = Append(@, EmptyText)]
        w2 == IF w1.originalFontSize # Null
              THEN [w1 EXCEPT !.osdFontSize = w1.originalFontSize]
              ELSE w1
        w3 == _unregisterMenuKeys(w2)
        w4 == IF w3.menuInterval # Null
              THEN [w3 EXCEPT !.hostIntervals = @ \ {w3.menuInterval},
                              !.menuInterval = Null]
              ELSE w3
        w5 == stopMessage(w4, TRUE)
    IN IF cbHide # "null"
       THEN [w5 EXCEPT !.cbLog = @ \cup {"hide"}, !.cbSeq = Append(@, "hide")]
       ELSE w5

RECURSIVE renderMenu(_, _, _, _)

\* hideMenu's restoring of osd-font-size, if the menu saved one.
restoreFontSize(w) ==
    IF w.originalFontSize # Null
    THEN [w EXCEPT !.osdFontSize = w.originalFontSize]
    ELSE w

\* hideMenu's clearInterval of the redraw timer, if one runs.
clearMenuInterval(w) ==
    IF w.menuInterval # Null
    THEN [w EXCEPT !.hostIntervals = @ \ {w.menuInterval}, !.menuInterval = Null]
    ELSE w

\* hideMenu's last statement, the call of this.cbMenuHide if it is a function.
RunHideCallback(w, cbHide) ==
    IF cbHide = "null"
    THEN w
    ELSE LET w1 == [w EXCEPT !.cbLog = @ \cup {"hide"}, !.cbSeq = Append(@, "hide")]
         IN IF cbHide = "show" THEN renderMenu(w1, FALSE, 0, "noop") ELSE w1

\* SelectionMenu.prototype.hideMenu.  cbHide says what this.cbMenuHide is:
\* "null" (none set), "noop" (a function that calls nothing back) or "show"
\* (a function that calls renderMenu(), its own open callback calling
\* nothing back).
hideMenu(w, cbHide) ==
    IF ~isMenuActive(w)
    THEN w
    ELSE LET w1 == [w EXCEPT !.osdText = EmptyText, !.osdWrites = Append(@, EmptyText)]
             w3 == _unregisterMenuKeys(restoreFontSize(w1))
             w5 == stopMessage(clearMenuInterval(w3), TRUE)
         IN RunHideCallback(w5, cbHide)

\* A window that is not moved back when it reaches the end of the list.
Window_NoShiftBack(len, sel) ==
    LET half == maxLines \div 2
        start0 == IF sel - half < 0 THEN 0 ELSE sel - half
        maxIdx == len - 1
        endIdx == IF start0 + maxLines - 1 > maxIdx THEN maxIdx ELSE start0 + maxLines - 1
    IN [startIdx |-> start0, endIdx |-> endIdx]

\* A window that starts at the selection instead of around it.
Window_SelectionFirst(len, sel) ==
    LET start0 == IF sel < 0 THEN 0 ELSE sel
        maxIdx == len - 1
        endIdx == IF start0 + maxLines - 1 > maxIdx THEN maxIdx ELSE start0 + maxLines - 1
        lineCount == (endIdx - start0) + 1
        lineDiff == maxLines - lineCount
        startIdx == IF start0 - lineDiff < 0 THEN 0 ELSE start0 - lineDiff
    IN [startIdx |-> startIdx, endIdx |-> endIdx]

\* renderMenu's start and end offsets around the selection, for len options.
Window(len, sel) ==
    LET half == maxLines \div 2
        start0 == IF sel - half < 0 THEN 0 ELSE sel - half
        maxIdx == len - 1
        endIdx == IF start0 + maxLines - 1 > maxIdx THEN maxIdx ELSE start0 + maxLines - 1
        lineCount == (endIdx - start0) + 1
        lineDiff == maxLines - lineCount
        startIdx == IF start0 - lineDiff < 0 THEN 0 ELSE start0 - lineDiff
    IN [startIdx |-> startIdx, endIdx |-> endIdx]

\* The option lines renderMenu writes: the window around the selection, its
\* first and last line shown as "..." when options lie beyond them.
RenderLines(opts, sel, hasPrefix) ==
    IF Len(opts) > 0
    THEN LET win == Window(Len(opts), sel)
             startIdx == win.startIdx
             endIdx == win.endIdx
             maxIdx == Len(opts) - 1
         IN [k \in 1..(endIdx - startIdx + 1) |->
                LET i == startIdx + k - 1
                IN [item |-> At(opts, i),
                    dots |-> (i = startIdx /\ startIdx > 0) \/ (i = endIdx /\ endIdx < maxIdx),
                    selected |-> i = sel,
                    prefix |-> i = sel /\ hasPrefix]]
    ELSE <<>>

\* renderMenu up to its update of the text cache, which is all of
\* renderMenu(selectionPrefix, 2).
renderMenuText(w, hasPrefix) ==
    [w EXCEPT !.currentMenuText =
        MenuText(RenderLines(w.options, w.selectionIdx, hasPrefix))]

\* A showMessage that sets its timeout without clearing the one before.
showMessage_KeepsOldTimeout(w, msg, durationMs, clearSelectionPrefix) ==
    IF ~isMenuActive(w)
    THEN w
    ELSE LET ms == IF durationMs.kind \in {"int", "frac"} THEN durationMs.n ELSE DefaultDurationMs
             w1 == IF clearSelectionPrefix THEN renderMenuText(w, FALSE) ELSE w
             w2 == [w1 EXCEPT !.isShowingMessage = TRUE, !.currentMessageText = msg]
             w3 == _disableAutoCloseTimeout(_renderActiveText(w2), TRUE)
             id == NewId({t.id : t \in w3.hostTimeouts})
         IN [w3 EXCEPT !.hostTimeouts = @ \cup {[id |-> id, at |-> now + MsToTicks(ms)]},
                       !.stopMessageTimeout = id]

\* showMessage's clearTimeout of the timeout of the message before.
clearMessageTimeout(w) ==
    IF w.stopMessageTimeout # Null
    THEN [w EXCEPT !.hostTimeouts = {t \in @ : t.id # w.stopMessageTimeout}]
    ELSE w

\* showMessage's setTimeout of stopMessage, ms milliseconds from now.
setMessageTimeout(w, ms) ==
    LET id == NewId({t.id : t \in w.hostTimeouts})
    IN [w EXCEPT !.hostTimeouts = @ \cup {[id |-> id, at |-> now + MsToTicks(ms)]},
                 !.stopMessageTimeout = id]

\* SelectionMenu.prototype.showMessage.  msg is a text, durationMs a JS value.
showMessage(w, msg, durationMs, clearSelectionPrefix) ==
    IF ~isMenuActive(w)
    THEN w
    ELSE LET ms == IF durationMs.kind \in {"int", "frac"} THEN durationMs.n ELSE DefaultDurationMs
             w1 == IF clearSelectionPrefix THEN renderMenuText(w, FALSE) ELSE w
             w2 == [w1 EXCEPT !.isShowingMessage = TRUE, !.currentMessageText = msg]
             w3 == _disableAutoCloseTimeout(_renderActiveText(w2), TRUE)
         IN setMessageTimeout(clearMessageTimeout(w3), ms)

\* The message a consumer's open callback shows, and for how long.
CbShowDuration == Num(2000)

\* this.cbMenuShow(), for what cbShow says it is: "noop" (a function that
\* calls nothing back), "message" (a function that calls showMessage) or
\* "hide" (a function that calls hideMenu(), the close callback calling
\* nothing back).
RunShowCallback(w, cbShow) ==
    LET w1 == [w EXCEPT !.cbLog = @ \cup {"show"}, !.cbSeq = Append(@, "show")]
    IN CASE cbShow = "message" ->
                showMessage(w1, MsgText("shown"), CbShowDuration, FALSE)
         [] cbShow = "hide" -> hideMenu(w1, "noop")
         [] OTHER -> w1

\* A _showMenu that takes every call for the opening one.
JustOpened_Always(w) == TRUE

\* _showMenu's justOpened: the menu was not active when it was called.
JustOpened(w) == ~isMenuActive(w)

\* _showMenu's clearInterval of a redraw timer left over and its setInterval
\* of a new one.
setMenuInterval(w) ==
    LET ids == IF w.menuInterval # Null
               THEN w.hostIntervals \ {w.menuInterval}
               ELSE w.hostIntervals
        id == NewId(ids)
    IN [w EXCEPT !.hostIntervals = ids \cup {id}, !.menuInterval = id]

\* SelectionMenu.prototype._showMenu.  cbShow says what this.cbMenuShow is
\* ("null": none set).
_showMenu(w, cbShow) ==
    IF JustOpened(w)
    THEN LET a == [w EXCEPT !.originalFontSize = w.osdFontSize,
                            !.osdFontSize = menuFontSize]
             d == setMenuInterval(_registerMenuKeys(a))
             w2 == _renderActiveText(stopMessage(d, TRUE))
         IN _updateAutoCloseTimeout(
                IF cbShow # "null"
                THEN RunShowCallback(_disableAutoCloseTimeout(w2, FALSE), cbShow)
                ELSE w2,
                TRUE)
    ELSE _renderActiveText(w)

\* renderMenu after its update of the text cache: the menu is shown unless
\* the render mode keeps it from the screen.
showRendered(w, renderMode, cbShow) ==
    IF (renderMode = 1 /\ (~isMenuActive(w) \/ w.isShowingMessage)) \/ renderMode = 2
    THEN w
    ELSE _showMenu(w, cbShow)

\* SelectionMenu.prototype.renderMenu.  hasPrefix: selectionPrefix is a string.
renderMenu(w, hasPrefix, renderMode, cbShow) ==
    showRendered(renderMenuText(w, hasPrefix), renderMode, cbShow)

\* A setOptions that takes any whole number as the selection.
setOptions_NoRangeCheck(w, newOptions, initialSelectionIdx) ==
    [w EXCEPT !.options = newOptions,
              !.selectionIdx = IF initialSelectionIdx.kind = "int"
                               THEN initialSelectionIdx.n
                               ELSE 0]

\* SelectionMenu.prototype.setOptions, for options that are given.  (A number
\* that is no whole number passes typeof too and is stored as it is; the
\* indexes tried are whole numbers or absent.)
setOptions(w, newOptions, initialSelectionIdx) ==
    [w EXCEPT !.options = newOptions,
              !.selectionIdx = IF /\ initialSelectionIdx.kind = "int"
                                  /\ initialSelectionIdx.n >= 0
                                  /\ initialSelectionIdx.n < Len(newOptions)
                               THEN initialSelectionIdx.n
                               ELSE 0]

\* A move that clamps at both ends for every action: the wrap is missing.
MoveSelection_AlwaysClamps(sel, maxIdx, action) ==
    LET moved == IF action \in {"Menu-Up", "Menu-Up-Fast"}
                 THEN sel - (IF action = "Menu-Up-Fast" THEN FastStep ELSE 1)
                 ELSE sel + (IF action = "Menu-Down-Fast" THEN FastStep ELSE 1)
    IN IF moved < 0 THEN 0
       ELSE IF moved > maxIdx THEN maxIdx
       ELSE moved

\* A move that wraps to the other end for every action: the clamp is missing.
MoveSelection_AlwaysWraps(sel, maxIdx, action) ==
    LET moved == IF action \in {"Menu-Up", "Menu-Up-Fast"}
                 THEN sel - (IF action = "Menu-Up-Fast" THEN FastStep ELSE 1)
                 ELSE sel + (IF action = "Menu-Down-Fast" THEN FastStep ELSE 1)
    IN IF moved < 0 THEN maxIdx
       ELSE IF moved > maxIdx THEN 0
       ELSE moved

\* _menuAction's selection move for the four navigation actions.
MoveSelection(sel, maxIdx, action) ==
    LET moved == IF action \in {"Menu-Up", "Menu-Up-Fast"}
                 THEN sel - (IF action = "Menu-Up-Fast" THEN FastStep ELSE 1)
                 ELSE sel + (IF action = "Menu-Down-Fast" THEN FastStep ELSE 1)
    IN IF moved < 0 THEN (IF action = "Menu-Up-Fast" THEN 0 ELSE maxIdx)
       ELSE IF moved > maxIdx THEN (IF action = "Menu-Down-Fast" THEN maxIdx ELSE 0)
       ELSE moved

\* What a consumer's Left/Right/Open/Undo callback does, as the scripts'
\* callbacks do: nothing, show a message, hide the menu, load new options and
\* render them, or render the menu with a selection prefix.
CbKinds == {"noop", "message", "hide", "refresh", "prefix", "throw"}
RunCallback(w, cb, arg) ==
    CASE cb = "message" -> showMessage(w, MsgText("cb"), arg.duration, FALSE)
      [] cb = "hide" -> hideMenu(w, arg.cbHide)
      [] cb = "refresh" -> renderMenu(setOptions(w, arg.options, arg.idx), FALSE, 0, arg.cbShow)
      [] cb = "prefix" -> renderMenu(w, TRUE, 0, arg.cbShow)
      [] OTHER -> w

\* An unknown action that throws to the caller.
UnknownAction_Throws(w, action) == [w EXCEPT !.threw = TRUE]

\* _menuAction's default case: mp.msg.error('Unknown menu action ...'); return;
UnknownAction(w, action) ==
    [w EXCEPT !.hostErrors = Append(@, [kind |-> "unknownAction", action |-> action])]

\* A block that holds the navigation keys only.
Blocked_NavigationOnly(w, action) == w.isShowingMessage /\ action \in NavActions

\* _menuAction's first test: a message is showing and the action is not Close.
Blocked(w, action) == w.isShowingMessage /\ action # "Menu-Close"

\* SelectionMenu.prototype._menuAction.  cb says what this['cb'+action] is and
\* does ("null": none set; "throw": it throws, and so does _menuAction).
_menuAction(w, action, cb, arg) ==
    IF Blocked(w, action)
    THEN w
    ELSE CASE action \in NavActions ->
                LET w1 == [w EXCEPT !.selectionIdx =
                               MoveSelection(w.selectionIdx, Len(w.options) - 1, action)]
                IN _updateAutoCloseTimeout(renderMenu(w1, FALSE, 0, arg.cbShow), FALSE)
           [] action \in CbActions ->
                IF cb = "null"
                THEN _updateAutoCloseTimeout(w, FALSE)
                ELSE LET w1 == _disableAutoCloseTimeout(w, FALSE)
                     IN IF cb = "throw"
                        THEN [w1 EXCEPT !.cbLog = @ \cup {action}, !.threw = TRUE]
                        ELSE _updateAutoCloseTimeout(
                                 RunCallback([w1 EXCEPT !.cbLog = @ \cup {action}], cb, arg),
                                 FALSE)
           [] action = "Menu-Help" ->
                _updateAutoCloseTimeout(
                    showMessage(w, MsgText("help"), Num(HelpDurationMs), FALSE), FALSE)
           [] action = "Menu-Close" ->
                _updateAutoCloseTimeout(hideMenu(w, arg.cbHide), FALSE)
           [] OTHER -> UnknownAction(w, action)

\* A _handleAutoClose that does not wait for the delay.
_handleAutoClose_NoDelay(w, cbHide) ==
    IF autoCloseDelay <= 0 \/ w.autoCloseActiveAt <= -1
    THEN w
    ELSE IF w.autoCloseActiveAt <= now
         THEN hideMenu(w, cbHide)
         ELSE w

\* SelectionMenu.prototype._handleAutoClose
_handleAutoClose(w, cbHide) ==
    IF autoCloseDelay <= 0 \/ w.autoCloseActiveAt <= -1
    THEN w
    ELSE IF w.autoCloseActiveAt <= now - autoCloseDelay
         THEN hideMenu(w, cbHide)
         ELSE w

\* The settings tried for the constructor, and what the consumer passes.
MaxLinesArgs == {Other, Num(3)}
AutoCloseArgs == {Num(0), Num(1), Num(2)}
ShowKinds == {"null", "noop", "message"}
HideKinds == {"null", "noop"}
MsgIds == {"m1", "m2"}
DurationArgs == {Other, Num(2000)}
OptionLists(maxLen) == {Iota(len) : len \in 0..maxLen}
IdxArgs(maxLen) == {Other, Num(-1), Num(3), Num(maxLen - 1)}
\* What a callback is called with in hand: the arguments of the calls it makes.
CbArgs(maxLen) ==
    [duration : DurationArgs, cbHide : HideKinds, cbShow : ShowKinds,
     options : {Iota(0), Iota(maxLen)}, idx : {Other, Num(1)}]
NoArg == [duration |-> Other, cbHide |-> "null", cbShow |-> "null",
          options |-> <<>>, idx |-> Other]

(***************************************************************************)
(* The key bindings (src/unnamed/part_009:168-223).  A key name is the     *)
(* sequence of its characters; an entry of an override list is a string    *)
(* or something that is no string.                                         *)
(***************************************************************************)
Str(chars) == [kind |-> "string", chars |-> chars]
NonString == [kind |-> "number", chars |-> <<>>]

\* String.prototype.toLowerCase, character by character.
UpperLetters == <<"A", "B", "C", "D", "E", "F", "G", "H", "I", "J", "K", "L", "M",
                  "N", "O", "P", "Q", "R", "S", "T", "U", "V", "W", "X", "Y", "Z">>
LowerLetters == <<"a", "b", "c", "d", "e", "f", "g", "h", "i", "j", "k", "l", "m",
                  "n", "o", "p", "q", "r", "s", "t", "u", "v", "w", "x", "y", "z">>
toLowerCase(chars) ==
    [i \in 1..Len(chars) |->
        IF \E j \in 1..Len(UpperLetters) : UpperLetters[j] = chars[i]
        THEN LowerLetters[CHOOSE j \in 1..Len(UpperLetters) : UpperLetters[j] = chars[i]]
        ELSE chars[i]]

\* key.replace(/(?:^\s+|\s+$)/g, ''): the whitespace at both ends removed.
Whitespace == {" ", "\t"}
RECURSIVE TrimStart(_)
TrimStart(chars) ==
    IF Len(chars) > 0 /\ Head(chars) \in Whitespace THEN TrimStart(Tail(chars)) ELSE chars
RECURSIVE TrimEnd(_)
TrimEnd(chars) ==
    IF Len(chars) > 0 /\ chars[Len(chars)] \in Whitespace
    THEN TrimEnd(SubSeq(chars, 1, Len(chars) - 1))
    ELSE chars
Trim(chars) == TrimEnd(TrimStart(chars))

\* The constructor's default table.
Binding(repeatable, keys) == [repeatable |-> repeatable, keys |-> keys]
DefaultKeyBindings ==
    [a \in Actions |->
        CASE a = "Menu-Up" -> Binding(TRUE, <<(<<"u", "p">>)>>)
          [] a = "Menu-Down" -> Binding(TRUE, <<(<<"d", "o", "w", "n">>)>>)
          [] a = "Menu-Up-Fast" -> Binding(TRUE, <<(<<"s", "h", "i", "f", "t", "+", "u", "p">>)>>)
          [] a = "Menu-Down-Fast" ->
                Binding(TRUE, <<(<<"s", "h", "i", "f", "t", "+", "d", "o", "w", "n">>)>>)
          [] a = "Menu-Left" -> Binding(TRUE, <<(<<"l", "e", "f", "t">>)>>)
          [] a = "Menu-Right" -> Binding(FALSE, <<(<<"r", "i", "g", "h", "t">>)>>)
          [] a = "Menu-Open" -> Binding(FALSE, <<(<<"e", "n", "t", "e", "r">>)>>)
          [] a = "Menu-Undo" -> Binding(FALSE, <<(<<"b", "s">>)>>)
          [] a = "Menu-Help" -> Binding(FALSE, <<(<<"h">>)>>)
          [] a = "Menu-Close" -> Binding(FALSE, <<(<<"e", "s", "c">>)>>)]

\* An override loop that skips an entry that is no string.
RECURSIVE RebindKeys_SkipsNonString(_, _, _)
RebindKeys_SkipsNonString(cur, allKeys, i) ==
    IF i > Len(allKeys)
    THEN cur
    ELSE LET key == allKeys[i] IN
         IF key.kind # "string"
         THEN RebindKeys_SkipsNonString(cur, allKeys, i + 1)
         ELSE LET k == Trim(toLowerCase(key.chars)) IN
              IF Len(k) = 0
              THEN RebindKeys_SkipsNonString(cur, allKeys, i + 1)
              ELSE RebindKeys_SkipsNonString(
                       [threw |-> FALSE, erasedDefaults |-> TRUE,
                        keys |-> Append(IF cur.erasedDefaults THEN cur.keys ELSE <<>>, k)],
                       allKeys, i + 1)

\* An override loop that adds the keys to the defaults.
RECURSIVE RebindKeys_KeepsDefaults(_, _, _)
RebindKeys_KeepsDefaults(cur, allKeys, i) ==
    IF i > Len(allKeys)
    THEN cur
    ELSE LET key == allKeys[i] IN
         IF key.kind # "string"
         THEN [cur EXCEPT !.threw = TRUE]
         ELSE LET k == Trim(toLowerCase(key.chars)) IN
              IF Len(k) = 0
              THEN RebindKeys_KeepsDefaults(cur, allKeys, i + 1)
              ELSE RebindKeys_KeepsDefaults(
                       [threw |-> FALSE, erasedDefaults |-> TRUE,
                        keys |-> Append(cur.keys, k)],
                       allKeys, i + 1)

\* The loop over one override list, from its entry i on.  cur holds the keys
\* of the action so far, erasedDefaults, and whether an entry made it throw.
RECURSIVE RebindKeys(_, _, _)
RebindKeys(cur, allKeys, i) ==
    IF i > Len(allKeys)
    THEN cur
    ELSE LET key == allKeys[i] IN
         IF key.kind # "string"
         THEN [cur EXCEPT !.threw = TRUE]
         ELSE LET k == Trim(toLowerCase(key.chars)) IN
              IF Len(k) = 0
              THEN RebindKeys(cur, allKeys, i + 1)
              ELSE RebindKeys([threw |-> FALSE, erasedDefaults |-> TRUE,
                               keys |-> Append(IF cur.erasedDefaults THEN cur.keys ELSE <<>>, k)],
                              allKeys, i + 1)

\* The loop over the overrides, in the order of the object's properties: a
\* sequence of <<action, list>>, from its entry j on.
RECURSIVE ApplyRebinds(_, _, _)
ApplyRebinds(bindings, rebinds, j) ==
    IF j > Len(rebinds)
    THEN Ok(bindings)
    ELSE LET action == rebinds[j][1] IN
         IF action \notin DOMAIN bindings
         THEN Throw
         ELSE LET done == RebindKeys([threw |-> FALSE, erasedDefaults |-> FALSE,
                                      keys |-> bindings[action].keys], rebinds[j][2], 1)
              IN IF done.threw
                 THEN Throw
                 ELSE ApplyRebinds([bindings EXCEPT ![action].keys = done.keys],
                                   rebinds, j + 1)

\* A check for duplicates that looks within each action only.
HasDuplicateKey_WithinAction(bindings) ==
    \E a \in DOMAIN bindings :
        \E i \in 1..Len(bindings[a].keys), j \in 1..Len(bindings[a].keys) :
            /\ i # j
            /\ bindings[a].keys[i] = bindings[a].keys[j]

\* The check for duplicates: a key that is met a second time, under another
\* action or under the same one.
HasDuplicateKey(bindings) ==
    \E a, b \in DOMAIN bindings :
        \E i \in 1..Len(bindings[a].keys), j \in 1..Len(bindings[b].keys) :
            /\ <<a, i>> # <<b, j>>
            /\ bindings[a].keys[i] = bindings[b].keys[j]

\* The constructor's key binding part: the table, or a throw.
KeyBindingsSetting(rebinds) ==
    LET applied == ApplyRebinds(DefaultKeyBindings, rebinds, 1) IN
    IF applied.threw \/ HasDuplicateKey(applied.val) THEN Throw ELSE applied

(***************************************************************************)
(* Utils.quickSort (src/scripts/modules.js/MicroUtils.js:21-103), which    *)
(* Menu-Help sorts each key list with, in place.  Indexes are the code's,  *)
(* from 0; a sequence's entry i is the array's entry i - 1.                *)
(***************************************************************************)
\* The characters of the key names, in the order of their code units.
CodeUnits ==
    <<"\t", " ", "+">> \o UpperLetters \o LowerLetters
CodeUnit(c) == CHOOSE j \in 1..Len(CodeUnits) : CodeUnits[j] = c

\* a < b and a <= b on strings: by code unit, a proper prefix first.
RECURSIVE StrLess(_, _)
StrLess(a, b) ==
    IF Len(b) = 0 THEN FALSE
    ELSE IF Len(a) = 0 THEN TRUE
    ELSE IF Head(a) = Head(b) THEN StrLess(Tail(a), Tail(b))
    ELSE CodeUnit(Head(a)) < CodeUnit(Head(b))
StrLeq(a, b) == a = b \/ StrLess(a, b)

\* while (sortRef[R] >= refPiv && L < R) R--;
RECURSIVE ScanDown(_, _, _, _)
ScanDown(sortRef, refPiv, L, R) ==
    IF StrLeq(refPiv, sortRef[R + 1]) /\ L < R
    THEN ScanDown(sortRef, refPiv, L, R - 1)
    ELSE R

\* while (sortRef[L] <= refPiv && L < R) L++;
RECURSIVE ScanUp(_, _, _, _)
ScanUp(sortRef, refPiv, L, R) ==
    IF StrLeq(sortRef[L + 1], refPiv) /\ L < R
    THEN ScanUp(sortRef, refPiv, L + 1, R)
    ELSE L

\* The inner loop, while (L < R): entries move into the hole the pivot left,
\* in arr and in sortRef alike.
RECURSIVE Partition(_, _)
Partition(s, refPiv) ==
    IF ~(s.L < s.R)
    THEN s
    ELSE LET R1 == ScanDown(s.sortRef, refPiv, s.L, s.R)
             s1 == IF s.L < R1
                   THEN [arr |-> [s.arr EXCEPT ![s.L + 1] = s.arr[R1 + 1]],
                         sortRef |-> [s.sortRef EXCEPT ![s.L + 1] = s.sortRef[R1 + 1]],
                         L |-> s.L + 1, R |-> R1]
                   ELSE [s EXCEPT !.R = R1]
             L2 == ScanUp(s1.sortRef, refPiv, s1.L, s1.R)
             s2 == IF L2 < s1.R
                   THEN [arr |-> [s1.arr EXCEPT ![s1.R + 1] = s1.arr[L2 + 1]],
                         sortRef |-> [s1.sortRef EXCEPT ![s1.R + 1] = s1.sortRef[L2 + 1]],
                         L |-> L2, R |-> s1.R - 1]
                   ELSE [s1 EXCEPT !.L = L2]
         IN Partition(s2, refPiv)

\* The outer loop, while (stackPtr >= 0), over the stacks beg and end.
RECURSIVE quickSort_Loop(_, _, _, _, _)
quickSort_Loop(arr, sortRef, beg, end, stackPtr) ==
    IF stackPtr < 0
    THEN arr
    ELSE LET L == beg[stackPtr + 1]
             R == end[stackPtr + 1] - 1
         IN IF L < R
            THEN LET arrPiv == arr[L + 1]
                     refPiv == sortRef[L + 1]
                     p == Partition([arr |-> arr, sortRef |-> sortRef, L |-> L, R |-> R],
                                    refPiv)
                     grows == stackPtr + 1 = Len(beg)
                     beg1 == IF grows THEN Append(beg, 0) ELSE beg
                     end1 == IF grows THEN Append(end, 0) ELSE end
                 IN quickSort_Loop(
                        [p.arr EXCEPT ![p.L + 1] = arrPiv],
                        [p.sortRef EXCEPT ![p.L + 1] = refPiv],
                        [beg1 EXCEPT ![stackPtr + 2] = p.L + 1],
                        [end1 EXCEPT ![stackPtr + 2] = end1[stackPtr + 1],
                                     ![stackPtr + 1] = p.L],
                        stackPtr + 1)
            ELSE quickSort_Loop(arr, sortRef, beg, end, stackPtr - 1)

\* Utils.quickSort_Run(arr, sortRef)
quickSort_Run(arr, sortRef) ==
    IF Len(arr) <= 1
    THEN arr
    ELSE quickSort_Loop(arr, sortRef, <<0>>, <<Len(sortRef)>>, 0)

\* Utils.quickSort(arr, {caseInsensitive: true}): sorted by the lower-cased
\* copy of each entry.
quickSort(arr) ==
    quickSort_Run(arr, [i \in 1..Len(arr) |-> toLowerCase(arr[i])])

\* Menu-Help's loop over the table: every action with keys has its list
\* sorted in place (every name of the table starts with Menu- and has a title).
HelpSorted(bindings) ==
    [a \in DOMAIN bindings |->
        IF Len(bindings[a].keys) = 0
        THEN bindings[a]
        ELSE [bindings[a] EXCEPT !.keys = quickSort(@)]]

\* this.keyBindings after _menuAction(action), called with the menu as w.
keyBindingsAfter(w, action) ==
    IF ~Blocked(w, action) /\ action = "Menu-Help"
    THEN HelpSorted(keyBindings)
    ELSE keyBindings

\* The record kept of the last call or event, with the state it met.
MnCall(op, action, cb, arg) ==
    [op |-> op, action |-> action, cb |-> cb, arg |-> arg,
     sel |-> IF op = "action" THEN selectionIdx ELSE 0,
     len |-> IF op = "action" THEN Len(options) ELSE 0,
     msg |-> isShowingMessage, open |-> hasRegisteredKeys]

\* The directories the browser is sent to.
Dirs == {"d1", "d2"}

\* new Browser(): no page, no path, metadata type null; every directory is
\* there and readable.
BbInit ==
    /\ currentPage = "null"
    /\ currentPageIdx = -1
    /\ currentPath = "null"
    /\ metaType = "null"
    /\ dirState = [d \in Dirs |-> "ok"]
    /\ bbCall = [op |-> "new", arg |-> "", page |-> "null", open |-> FALSE,
                 failed |-> FALSE, from |-> ""]

\* new SelectionMenu(settings), with mpv showing nothing and no timers set.
MnInit(maxLinesArgs, autoCloseArgs) ==
    /\ options = <<>>
    /\ selectionIdx = 0
    /\ hasRegisteredKeys = FALSE
    /\ isShowingMessage = FALSE
    /\ currentMessageText = EmptyText
    /\ currentMenuText = EmptyText
    /\ originalFontSize = Null
    /\ menuInterval = Null
    /\ stopMessageTimeout = Null
    /\ autoCloseActiveAt = 0
    /\ maxLines \in {MaxLinesSetting(v) : v \in maxLinesArgs}
    /\ menuFontSize = MenuFontSizeSetting(Other)
    /\ autoCloseDelay \in {AutoCloseDelaySetting(v) : v \in autoCloseArgs}
    /\ osdText = EmptyText
    /\ osdFontSize \in HostFontSizes
    /\ hostKeys = {}
    /\ hostIntervals = {}
    /\ hostTimeouts = {}
    /\ now = 0
    /\ cbLog = {}
    /\ cbSeq = <<>>
    /\ osdWrites = <<>>
    /\ hostErrors = <<>>
    /\ mnThrew = FALSE
    /\ mnCall = [op |-> "new", action |-> "", cb |-> "", arg |-> Other,
                 sel |-> 0, len |-> 0, msg |-> FALSE, open |-> FALSE]
    /\ fontAtOpen = Null
    /\ lastActivity = 0
    /\ fontBefore = osdFontSize
    /\ menu2 = [hasRegisteredKeys |-> FALSE, originalFontSize |-> Null,
                menuInterval |-> Null]
    /\ BbInit

\* The constructor was called without key overrides and returned the menu.
MnMade ==
    /\ menuMade = TRUE
    /\ keyBindings = DefaultKeyBindings
    /\ mnNew = [rebinds |-> <<>>, threw |-> FALSE]

\* What is kept of the past: the font size the host had when the menu last
\* went from closed to open, the time of the last activity (the menu
\* opened, a key action was accepted and returned, or a message ended), and
\* the font size the host had when neither menu was open.
Track(accepted) ==
    /\ fontBefore' = IF ~hasRegisteredKeys /\ ~menu2.hasRegisteredKeys
                     THEN osdFontSize ELSE fontBefore
    /\ fontAtOpen' = IF ~hasRegisteredKeys /\ hasRegisteredKeys'
                     THEN osdFontSize ELSE fontAtOpen
    /\ lastActivity' = IF \/ (~hasRegisteredKeys /\ hasRegisteredKeys')
                          \/ accepted
                          \/ (isShowingMessage /\ ~isShowingMessage')
                       THEN now ELSE lastActivity

\* The consumer calls setOptions; without options it throws.
SetOptions(given, newOptions, initialSelectionIdx) ==
    /\ mnCall' = MnCall(IF given THEN "setOptions" ELSE "setOptionsThrew", "", "", initialSelectionIdx)
    /\ Commit(IF given THEN setOptions(World, newOptions, initialSelectionIdx) ELSE World)
    /\ Track(FALSE)
    /\ UNCHANGED <<maxLines, menuFontSize, autoCloseDelay, keyBindings, menuMade, mnNew, now>>
    /\ MnFrame

\* The consumer calls renderMenu(selectionPrefix, renderMode).
RenderMenu(hasPrefix, renderMode, cbShow) ==
    /\ mnCall' = MnCall("renderMenu", "", cbShow, Num(renderMode))
    /\ Commit(renderMenu(World, hasPrefix, renderMode, cbShow))
    /\ Track(FALSE)
    /\ UNCHANGED <<maxLines, menuFontSize, autoCloseDelay, keyBindings, menuMade, mnNew, now>>
    /\ MnFrame

\* The consumer calls hideMenu().
HideMenu(cbHide) ==
    /\ mnCall' = MnCall("hideMenu", "", cbHide, Other)
    /\ Commit(hideMenu(World, cbHide))
    /\ Track(FALSE)
    /\ UNCHANGED <<maxLines, menuFontSize, autoCloseDelay, keyBindings, menuMade, mnNew, now>>
    /\ MnFrame

\* The consumer calls showMessage(msg, durationMs, clearSelectionPrefix).
ShowMessage(id, durationMs, clearSelectionPrefix) ==
    /\ mnCall' = MnCall("showMessage", "", id, durationMs)
    /\ Commit(showMessage(World, MsgText(id), durationMs, clearSelectionPrefix))
    /\ Track(FALSE)
    /\ UNCHANGED <<maxLines, menuFontSize, autoCloseDelay, keyBindings, menuMade, mnNew, now>>
    /\ MnFrame

\* The consumer calls stopMessage().
StopMessage ==
    /\ mnCall' = MnCall("stopMessage", "", "", Other)
    /\ Commit(stopMessage(World, FALSE))
    /\ Track(FALSE)
    /\ UNCHANGED <<maxLines, menuFontSize, autoCloseDelay, keyBindings, menuMade, mnNew, now>>
    /\ MnFrame

\* mpv runs the binding of a key of `action`: the function _registerMenuKeys
\* made for it calls _menuAction(action).
MenuAction(action, cb, arg) ==
    /\ \E b \in hostKeys : b.action = action
    /\ mnCall' = MnCall("action", action, cb, Other)
    /\ Commit(_menuAction(World, action, cb, arg))
    /\ Track((~isShowingMessage \/ action = "Menu-Close") /\ cb # "throw")
    /\ keyBindings' = keyBindingsAfter(World, action)
    /\ UNCHANGED <<maxLines, menuFontSize, autoCloseDelay, menuMade, mnNew, now>>
    /\ MnFrame

\* The redraw interval fires: _renderActiveText, then _handleAutoClose.
Tick(id, cbHide) ==
    /\ id \in hostIntervals
    /\ mnCall' = MnCall("tick", "", cbHide, Other)
    /\ Commit(_handleAutoClose(_renderActiveText(World), cbHide))
    /\ Track(FALSE)
    /\ UNCHANGED <<maxLines, menuFontSize, autoCloseDelay, keyBindings, menuMade, mnNew, now>>
    /\ MnFrame

\* A message timeout fires, no earlier than it was set for: stopMessage().
MessageExpiry(t) ==
    /\ t \in hostTimeouts
    /\ now >= t.at
    /\ mnCall' = MnCall("expiry", "", "", Other)
    /\ Commit(stopMessage([World EXCEPT !.hostTimeouts = @ \ {t}], FALSE))
    /\ Track(FALSE)
    /\ UNCHANGED <<maxLines, menuFontSize, autoCloseDelay, keyBindings, menuMade, mnNew, now>>
    /\ MnFrame

\* A second passes on mp.get_time()'s clock.
AdvanceTime ==
    /\ now < MaxTime
    /\ now' = now + 1
    /\ mnCall' = MnCall("second", "", "", Other)
    /\ Commit(World)
    /\ UNCHANGED <<maxLines, menuFontSize, autoCloseDelay, keyBindings, menuMade, mnNew, fontAtOpen, lastActivity, fontBefore>>
    /\ MnFrame

\* The consumer loads options and shows them, as the scripts do:
\* menu.setOptions(options, idx); menu.renderMenu();
LoadOptions(newOptions, initialSelectionIdx, cbShow) ==
    /\ mnCall' = MnCall("loadOptions", "", cbShow, initialSelectionIdx)
    /\ Commit(renderMenu(setOptions(World, newOptions, initialSelectionIdx), FALSE, 0, cbShow))
    /\ Track(FALSE)
    /\ UNCHANGED <<maxLines, menuFontSize, autoCloseDelay, keyBindings, menuMade, mnNew, now>>
    /\ MnFrame

\* Navigation: the keys, the calls that open and close the menu and load its
\* options, messages, and the redraw interval, all within one second of the
\* clock, over option lists of up to MaxLen entries.
MnNavNext ==
    \/ \E opts \in OptionLists(MaxLen), i \in IdxArgs(MaxLen) : LoadOptions(opts, i, "noop")
    \/ RenderMenu(FALSE, 0, "noop")
    \/ HideMenu("noop")
    \/ ShowMessage("m1", Other, FALSE)
    \/ StopMessage
    \/ \E action \in NavActions \cup {"Menu-Help", "Menu-Close"} :
          MenuAction(action, "null", [NoArg EXCEPT !.cbHide = "noop", !.cbShow = "noop"])
    \/ \E action \in CbActions, cb \in {"null", "noop"} : MenuAction(action, cb, NoArg)
    \/ \E id \in hostIntervals : Tick(id, "noop")

\* Something else than the menu sets mpv's osd-font-size.
ExternalFontSizes == {30}
HostSetFontSize(size) ==
    /\ osdFontSize # size
    /\ mnCall' = MnCall("hostFont", "", "", Other)
    /\ Commit([World EXCEPT !.osdFontSize = size])
    /\ Track(FALSE)
    /\ UNCHANGED <<maxLines, menuFontSize, autoCloseDelay, keyBindings, menuMade, mnNew, now>>
    /\ MnFrame

\* Every pending message timeout is due within the clock's run.
InClock == \A t \in hostTimeouts : t.at <= MaxTime

\* The menu with the clock running: it is opened and closed, keys are
\* pressed whose callbacks show a message or hide the menu, messages come and
\* go, the redraw interval and the message timeout fire, seconds pass, and
\* the font size is changed from outside.  The consumer has set an open and a
\* close callback.  A message is shown only when the clock runs long enough
\* for it to expire.
TimedOptions == Iota(2)
MnTimeNext ==
    \/ \E cbShow \in ShowKinds \ {"null"} : LoadOptions(TimedOptions, Other, cbShow) /\ InClock'
    \/ HideMenu("noop")
    \/ \E id \in MsgIds, d \in DurationArgs : ShowMessage(id, d, FALSE) /\ InClock'
    \/ StopMessage
    \/ \E action \in {"Menu-Down", "Menu-Help", "Menu-Close"} :
          /\ MenuAction(action, "null", [NoArg EXCEPT !.cbHide = "noop", !.cbShow = "noop"])
          /\ InClock'
    \/ \E action \in CbActions, cb \in {"message", "hide"} :
          /\ MenuAction(action, cb, [NoArg EXCEPT !.cbHide = "noop", !.cbShow = "noop",
                                                  !.duration = Num(2000)])
          /\ InClock'
    \/ \E id \in hostIntervals : Tick(id, "noop")
    \/ \E t \in hostTimeouts : MessageExpiry(t)
    \/ AdvanceTime
    \/ \E size \in ExternalFontSizes : HostSetFontSize(size)

\* Messages on the menu with the clock running: the menu is opened and
\* closed, messages are shown and stopped, keys are pressed, the redraw
\* interval and the message timeout fire, and seconds pass.
MnMsgNext ==
    \/ LoadOptions(TimedOptions, Other, "null")
    \/ HideMenu("null")
    \/ \E id \in MsgIds, d \in DurationArgs : ShowMessage(id, d, FALSE) /\ InClock'
    \/ StopMessage
    \/ \E action \in {"Menu-Down", "Menu-Help", "Menu-Close"} :
          MenuAction(action, "null", NoArg) /\ InClock'
    \/ \E id \in hostIntervals : Tick(id, "null")
    \/ \E t \in hostTimeouts : MessageExpiry(t)
    \/ AdvanceTime

\* Selection: options set with and without a render after them, and the
\* navigation keys.
MnSelNext ==
    \/ \E opts \in OptionLists(MaxLen), i \in IdxArgs(MaxLen) : SetOptions(TRUE, opts, i)
    \/ SetOptions(FALSE, <<>>, Other)
    \/ RenderMenu(FALSE, 0, "null")
    \/ \E action \in NavActions : MenuAction(action, "null", NoArg)

\* What the consumer passes as settings.keyRebindings: up to two overrides,
\* each an action name with a list of keys.
RebindActions == {"Menu-Open", "Menu-Close", "Menu-Bogus"}
KeyLists ==
    {<<>>,
     <<Str(<<" ">>)>>,
     <<Str(<<"a">>)>>,
     <<Str(<<" ", "E", "N", "T", "E", "R", " ">>)>>,
     <<Str(<<"E", "s", "c">>)>>,
     <<NonString>>,
     <<Str(<<"a">>), Str(<<"A", " ">>)>>,
     <<Str(<<"a">>), NonString>>,
     <<Str(<<" ">>), Str(<<"b">>), Str(<<"\t">>), Str(<<"c">>)>>,
     <<Str(<<"c", "b">>), Str(<<"C">>), Str(<<"a">>), Str(<<"B">>)>>}
Rebinds ==
    {<<>>}
    \cup {<<(<<a, l>>)>> : a \in RebindActions, l \in KeyLists}
    \cup {<<(<<a, l>>), (<<b, m>>)>> :
            a \in {"Menu-Open", "Menu-Bogus"}, l \in KeyLists,
            b \in {"Menu-Close"}, m \in KeyLists}

\* new SelectionMenu({keyRebindings: rebinds}): the menu, or a throw and no menu.
NewMenu(rebinds) ==
    /\ ~menuMade
    /\ LET made == KeyBindingsSetting(rebinds)
       IN /\ mnNew' = [rebinds |-> rebinds, threw |-> made.threw]
          /\ menuMade' = ~made.threw
          /\ keyBindings' = IF made.threw THEN keyBindings ELSE made.val
          /\ Commit([World EXCEPT !.threw = made.threw])
    /\ mnCall' = MnCall("new", "", "", Other)
    /\ Track(FALSE)
    /\ UNCHANGED <<maxLines, menuFontSize, autoCloseDelay, now>>
    /\ MnFrame

\* Code that holds the menu calls _menuAction(action) itself, with a name
\* that is none of the ten.
UnknownActions == {"Menu-Bogus", "menu-close"}
Dispatch(action) ==
    /\ mnCall' = MnCall("dispatch", action, "null", Other)
    /\ Commit(_menuAction(World, action, "null", NoArg))
    /\ Track(FALSE)
    /\ UNCHANGED <<maxLines, menuFontSize, autoCloseDelay, keyBindings, menuMade, mnNew, now>>
    /\ MnFrame

\* The key bindings: the menu is constructed with overrides, opened and
\* closed, its keys are pressed, a message is shown, and _menuAction is
\* called with unknown names.
MnKeysNext ==
    \/ \E rebinds \in Rebinds : NewMenu(rebinds)
    \/ menuMade /\ LoadOptions(TimedOptions, Other, "noop")
    \/ menuMade /\ HideMenu("noop")
    \/ menuMade /\ ShowMessage("m1", Other, FALSE)
    \/ menuMade /\ StopMessage
    \/ \E action \in Actions :
          MenuAction(action, "null", [NoArg EXCEPT !.cbHide = "noop", !.cbShow = "noop"])
    \/ \E action \in UnknownActions : menuMade /\ Dispatch(action)

\* The display: the menu is opened and closed by calls, by the Close key and
\* by the idle auto-close; it is rendered in the modes that do not open it;
\* messages are shown and stopped, also while the menu is closed; the redraw
\* interval and the message timeout fire, and seconds pass.
RenderModes == {1, 2}
MnShowNext ==
    \/ LoadOptions(TimedOptions, Other, "noop") /\ InClock'
    \/ \E renderMode \in RenderModes : RenderMenu(FALSE, renderMode, "noop")
    \/ HideMenu("noop")
    \/ \E d \in DurationArgs : ShowMessage("m1", d, FALSE) /\ InClock'
    \/ StopMessage
    \/ \E action \in {"Menu-Down", "Menu-Help", "Menu-Close"} :
          /\ MenuAction(action, "null", [NoArg EXCEPT !.cbHide = "noop", !.cbShow = "noop"])
          /\ InClock'
    \/ \E id \in hostIntervals : Tick(id, "noop")
    \/ \E t \in hostTimeouts : MessageExpiry(t)
    \/ AdvanceTime

\* A second passes once the message timeouts that are due have run: the
\* host runs a timer in the second it is due.
AdvanceTimeDue ==
    /\ \A t \in hostTimeouts : t.at > now
    /\ AdvanceTime

\* The idle menu: for the first seconds the consumer and the user open and
\* close the menu, show and stop messages and press keys, with callbacks
\* that return; after second LastCallAt only the timers run.  The clock
\* goes on long enough after it for a message of two seconds to end and the
\* longest idle delay to pass.
LastCallAt == MaxTime - 4
MnIdleNext ==
    \/ /\ now <= LastCallAt
       /\ \E cbShow \in {"noop", "message"} : LoadOptions(TimedOptions, Other, cbShow)
    \/ now <= LastCallAt /\ HideMenu("noop")
    \/ now <= LastCallAt /\ \E d \in DurationArgs : ShowMessage("m1", d, FALSE)
    \/ now <= LastCallAt /\ StopMessage
    \/ /\ now <= LastCallAt
       /\ \E action \in {"Menu-Down", "Menu-Close"} :
             MenuAction(action, "null", [NoArg EXCEPT !.cbHide = "noop", !.cbShow = "noop"])
    \/ /\ now <= LastCallAt
       /\ \E cb \in {"noop", "message"} :
             MenuAction("Menu-Left", cb, [NoArg EXCEPT !.duration = Num(2000)])
    \/ \E id \in hostIntervals : Tick(id, "noop")
    \/ \E t \in hostTimeouts : MessageExpiry(t)
    \/ AdvanceTimeDue

\* Callbacks that throw: the menu is opened and closed, keys are pressed
\* whose callbacks return or throw, the redraw interval fires and seconds pass.
MnThrowNext ==
    \/ LoadOptions(TimedOptions, Other, "noop")
    \/ HideMenu("noop")
    \/ \E action \in {"Menu-Down", "Menu-Close"} :
          MenuAction(action, "null", [NoArg EXCEPT !.cbHide = "noop", !.cbShow = "noop"])
    \/ \E action \in CbActions, cb \in {"noop", "throw"} : MenuAction(action, cb, NoArg)
    \/ \E id \in hostIntervals : Tick(id, "noop")
    \/ AdvanceTime

(***************************************************************************)
(* Specifications                                                          *)
(***************************************************************************)
Init == RcInit /\ StInit /\ MnInit({Other}, {Other}) /\ MnMade /\ LfNone

\* RandomCycle alone.
SpecCycle == Init /\ [][RcNext]_vars

\* Stack alone.
SpecStack == Init /\ [][StNext]_vars

\* SelectionMenu, navigated.
InitNav == RcInit /\ StInit /\ MnInit(MaxLinesArgs, {Other}) /\ MnMade /\ LfNone
SpecMenuNav == InitNav /\ [][MnNavNext]_vars

\* SelectionMenu with the clock running.
InitTime == RcInit /\ StInit /\ MnInit({Other}, AutoCloseArgs) /\ MnMade /\ LfNone
SpecMenuTime == InitTime /\ [][MnTimeNext]_vars

\* Messages on the menu, with what the host guarantees: its clock goes on,
\* and a timeout that is due is run.
InitMsg == RcInit /\ StInit /\ MnInit({Other}, {Num(2)}) /\ MnMade /\ LfNone
SpecMenuMsgFair ==
    /\ InitMsg
    /\ [][MnMsgNext]_vars
    /\ WF_vars(AdvanceTime)
    /\ WF_vars(\E t \in hostTimeouts : MessageExpiry(t))

\* SelectionMenu, its options set and its selection moved.
SpecMenuSel == InitNav /\ [][MnSelNext]_vars

\* SelectionMenu and the display, with the clock running.
SpecMenuShow == InitTime /\ [][MnShowNext]_vars

\* The idle menu, with what the host guarantees: its clock goes on, the
\* redraw interval keeps firing, and a timeout that is due is run.
SpecMenuIdleFair ==
    /\ InitTime
    /\ [][MnIdleNext]_vars
    /\ WF_vars(AdvanceTimeDue)
    /\ WF_vars(\E id \in hostIntervals : Tick(id, "noop"))
    /\ WF_vars(\E t \in hostTimeouts : MessageExpiry(t))

\* The second menu as a SelectionMenu of its own: its three fields, no
\* options, no message, and mpv's font size and OSD text, which it shares
\* with the first; its bindings and its interval are its own.
World2 ==
    [World EXCEPT !.options = <<>>, !.selectionIdx = 0,
                  !.hasRegisteredKeys = menu2.hasRegisteredKeys,
                  !.isShowingMessage = FALSE,
                  !.currentMessageText = EmptyText,
                  !.currentMenuText = EmptyText,
                  !.originalFontSize = menu2.originalFontSize,
                  !.menuInterval = menu2.menuInterval,
                  !.stopMessageTimeout = Null,
                  !.autoCloseActiveAt = 0,
                  !.hostKeys = {},
                  !.hostIntervals = IF menu2.menuInterval = Null
                                    THEN {} ELSE {menu2.menuInterval},
                  !.hostTimeouts = {}]

\* What a call on the second menu leaves: its fields, and mpv's font size
\* and OSD text.
Commit2(op, w) ==
    /\ menu2' = [hasRegisteredKeys |-> w.hasRegisteredKeys,
                 originalFontSize |-> w.originalFontSize,
                 menuInterval |-> w.menuInterval]
    /\ Commit([World EXCEPT !.osdFontSize = w.osdFontSize, !.osdText = w.osdText,
                            !.osdWrites = w.osdWrites])
    /\ mnCall' = MnCall(op, "", "null", Other)
    /\ Track(FALSE)
    /\ UNCHANGED <<maxLines, menuFontSize, autoCloseDelay, keyBindings, menuMade, mnNew, now>>
    /\ UNCHANGED <<rcVars, stVars, lfVars, bbVars>>

\* The second menu's script opens it, as Colorbox's key binding does:
\* if (!menu.isMenuActive()) menu.renderMenu();
Menu2Show ==
    /\ ~isMenuActive(World2)
    /\ \E w \in {renderMenu(World2, FALSE, 0, "null")} : Commit2("show2", w)

\* ... else menu.hideMenu();
Menu2Hide ==
    /\ isMenuActive(World2)
    /\ \E w \in {hideMenu(World2, "null")} : Commit2("hide2", w)

\* Two menus on one mpv: the first is opened with its options, moved in,
\* redrawn and closed, the second is opened and closed, in any order.
MnTwoNext ==
    \/ \E opts \in OptionLists(MaxLen) : LoadOptions(opts, Other, "noop")
    \/ HideMenu("noop")
    \/ \E action \in {"Menu-Down", "Menu-Close"} :
          MenuAction(action, "null", [NoArg EXCEPT !.cbHide = "noop", !.cbShow = "noop"])
    \/ \E id \in hostIntervals : Tick(id, "noop")
    \/ Menu2Show
    \/ Menu2Hide

\* Two SelectionMenus sharing mpv's osd-font-size.
SpecMenuTwo == InitNav /\ [][MnTwoNext]_vars

\* Callbacks that call back: the open callback returns, shows a message or
\* hides the menu, the close callback returns or renders the menu again, and
\* the callback of the Open key hides the menu, loads options or shows a
\* message; the menu is opened and closed by calls, by the Close key and by
\* the idle auto-close, with the clock running.
MnCbNext ==
    \/ \E cbShow \in {"noop", "message", "hide"} :
          LoadOptions(TimedOptions, Other, cbShow) /\ InClock'
    \/ \E cbHide \in {"noop", "show"} : HideMenu(cbHide)
    \/ \E cbHide \in {"noop", "show"} :
          MenuAction("Menu-Close", "null", [NoArg EXCEPT !.cbHide = cbHide])
    \/ \E cb \in {"hide", "refresh", "message"} :
          /\ MenuAction("Menu-Open", cb, [NoArg EXCEPT !.cbHide = "noop", !.cbShow = "noop",
                                                       !.duration = Num(2000)])
          /\ InClock'
    \/ \E id \in hostIntervals, cbHide \in {"noop", "show"} : Tick(id, cbHide)
    \/ \E t \in hostTimeouts : MessageExpiry(t)
    \/ AdvanceTime

\* SelectionMenu with callbacks that call back into the menu.
SpecMenuCb == InitTime /\ [][MnCbNext]_vars

\* SelectionMenu with callbacks that throw.
SpecMenuThrow == InitTime /\ [][MnThrowNext]_vars

\* Leapfrog with its history and its random cycle.
InitLeap == RcInit /\ LfInit /\ MnInit({Other}, {Other}) /\ MnMade
SpecLeap == InitLeap /\ [][LfNext]_vars

\* Leapfrog on a playlist of up to MaxEntries entries whose count changes.
InitLeapCount == InitLeap /\ playlistCount <= MaxEntries
SpecLeapCount == InitLeapCount /\ [][LfCountNext]_vars

\* SelectionMenu from its construction on, with key overrides.
InitKeys ==
    /\ RcInit /\ StInit /\ MnInit({Other}, {Other}) /\ LfNone
    /\ menuMade = FALSE
    /\ keyBindings = DefaultKeyBindings
    /\ mnNew = [rebinds |-> <<>>, threw |-> FALSE]
SpecMenuKeys == InitKeys /\ [][MnKeysNext]_vars

(***************************************************************************)
(* Blackbox's Browser: pages and directory navigation                      *)
(***************************************************************************)

\* this.pageList
pageList == <<"files", "favorites", "playlist">>

\* The page arguments that are JS strings (null and a missing argument are not).
IsPageString(forcePage) == forcePage \notin {"null", "undefined"}

\* The Browser's own fields as one record.
Browser ==
    [currentPage |-> currentPage, currentPageIdx |-> currentPageIdx,
     currentPath |-> currentPath, metaType |-> metaType]

\* Blackbox.prototype.flipPage.  (lastPageSelection, which it saves first,
\* decides no page and is left out.)
flipPage(b, forcePage) ==
    IF forcePage = b.currentPage \/ (forcePage = "none" /\ b.currentPage = "null")
    THEN b
    ELSE LET forceIdx == IF \E i \in 1..Len(pageList) : pageList[i] = forcePage
                         THEN (CHOOSE i \in 1..Len(pageList) : pageList[i] = forcePage) - 1
                         ELSE -1
             idx == IF IsPageString(forcePage) THEN forceIdx ELSE b.currentPageIdx + 1
         IN IF idx >= 0 /\ idx < Len(pageList)
            THEN [b EXCEPT !.currentPage = pageList[idx + 1], !.currentPageIdx = idx]
            ELSE [b EXCEPT !.currentPage = "null", !.currentPageIdx = -1]

\* Blackbox.prototype._showError with a duration under a second, which it
\* raises to one second.
_showError(w, err) ==
    LET w1 == [w EXCEPT !.hostErrors = Append(@, [kind |-> "browser", err |-> err])]
    IN IF isMenuActive(w1)
       THEN showMessage(w1, MsgText(err), Num(1000), FALSE)
       ELSE [w1 EXCEPT !.osdText = MsgText(err), !.osdWrites = Append(@, MsgText(err))]

\* The directory _generateLegalPath settles on: the one given, else
\* this.currentPath, else the directory mpv starts the browser in.
StartDir == "d1"
_generateLegalPath(b, path) ==
    IF path # "null" THEN path
    ELSE IF b.currentPath # "null" THEN b.currentPath
    ELSE StartDir

\* The entries of a directory, of the favorites and of the playlist, as the
\* menu gets them.
DirOptions(dir) == IF dir = "d1" THEN Iota(2) ELSE Iota(1)
FavOptions == Iota(3)
PlaylistOptions == Iota(1)

\* Blackbox.prototype.navigateDir: the Browser and the menu it leaves,
\* whether its catch block ran and, if so, the page it was called on.  new PathIndex(path) throws for a directory
\* that is missing or unreadable.
navigateDir(b, w, path, forceRefresh) ==
    LET oldPage == b.currentPage
        b1 == flipPage(b, "files")
        legal == _generateLegalPath(b1, path)
        reindex == forceRefresh \/ b1.metaType # "files" \/ b1.currentPath # legal
    IN IF reindex /\ dirState[legal] # "ok"
       THEN [b |-> flipPage(b1, oldPage), w |-> _showError(w, "navigateDir"),
             failed |-> TRUE, from |-> oldPage]
       ELSE [b |-> IF reindex
                   THEN [b1 EXCEPT !.currentPath = legal, !.metaType = "files"]
                   ELSE b1,
             w |-> renderMenu(IF reindex
                              THEN setOptions(w, DirOptions(legal), Num(0))
                              ELSE w,
                              FALSE, 0, "null"),
             failed |-> FALSE, from |-> ""]

\* Blackbox.prototype.navigateFav
navigateFav(b, w) ==
    LET b1 == flipPage(b, "favorites")
    IN IF b1.metaType # "favorites"
       THEN [b |-> [b1 EXCEPT !.metaType = "favorites"],
             w |-> renderMenu(setOptions(w, FavOptions, Num(1)), FALSE, 0, "null"),
             failed |-> FALSE, from |-> ""]
       ELSE [b |-> b1, w |-> renderMenu(w, FALSE, 0, "null"),
             failed |-> FALSE, from |-> ""]

\* Blackbox.prototype.navigatePlaylist
navigatePlaylist(b, w) ==
    LET b1 == flipPage(b, "playlist")
    IN [b |-> [b1 EXCEPT !.metaType = "playlist"],
        w |-> renderMenu(setOptions(w, PlaylistOptions, Num(0)), FALSE, 0, "null"),
        failed |-> FALSE, from |-> ""]

\* Blackbox.prototype.switchMenu; forcePage is a page or "undefined".
switchMenu(b, w, forcePage) ==
    LET b1 == IF IsPageString(forcePage)
              THEN flipPage(b, IF forcePage = b.currentPage THEN "none" ELSE forcePage)
              ELSE flipPage(b, "undefined")
    IN IF b1.currentPage = "null"
       THEN [b |-> b1, w |-> hideMenu(w, "noop"), failed |-> FALSE, from |-> ""]
       ELSE LET w1 == stopMessage(w, FALSE)
            IN CASE b1.currentPage = "favorites" -> navigateFav(b1, w1)
                 [] b1.currentPage = "files" -> navigateDir(b1, w1, b1.currentPath, FALSE)
                 [] OTHER -> navigatePlaylist(b1, w1)

\* The menu's close callback, browser.flipPage('none'), for a request or
\* event in which the menu ran it.
AfterHideCallback(b, w) == IF "hide" \in w.cbLog THEN flipPage(b, "none") ELSE b

\* What a Browser request or a menu event of the Browser leaves.
BbCommit(op, arg, r) ==
    LET b == AfterHideCallback(r.b, r.w)
    IN /\ currentPage' = b.currentPage
       /\ currentPageIdx' = b.currentPageIdx
       /\ currentPath' = b.currentPath
       /\ metaType' = b.metaType
       /\ bbCall' = [op |-> op, arg |-> arg, page |-> currentPage,
                     open |-> hasRegisteredKeys, failed |-> r.failed,
                     from |-> r.from]
       /\ Commit(r.w)
       /\ mnCall' = MnCall(op, "", "null", Other)
       /\ Track(FALSE)
       /\ UNCHANGED <<maxLines, menuFontSize, autoCloseDelay, keyBindings, menuMade,
                      mnNew, now, dirState>>
       /\ UNCHANGED <<rcVars, stVars, lfVars, m2Vars>>

\* The keys Blackbox, Blackbox_Files, Blackbox_Favorites, Blackbox_Playlist.
SwitchMenu(forcePage) ==
    /\ menuMade
    /\ \E r \in {switchMenu(Browser, World, forcePage)} :
          BbCommit("switchMenu", forcePage, r)

\* The menu's Menu-Close key, with the Browser's close callback.
BbClose ==
    /\ \E k \in hostKeys : k.action = "Menu-Close"
    /\ \E w \in {_menuAction(World, "Menu-Close", "null",
                            [NoArg EXCEPT !.cbHide = "noop"])} :
          BbCommit("close", "", [b |-> Browser, w |-> w, failed |-> FALSE, from |-> ""])

\* The menu's Menu-Right key on an entry of the files or favorites page that
\* is a directory: the Browser's callback redraws with a prefix and calls
\* navigateDir.
BbRight(target) ==
    /\ \E k \in hostKeys : k.action = "Menu-Right"
    /\ currentPage \in {"files", "favorites"}
    /\ metaType = currentPage
    /\ dirState[target] # "missing"
    /\ IF Blocked(World, "Menu-Right")
       THEN BbCommit("right", target,
                     [b |-> Browser, w |-> World, failed |-> FALSE, from |-> ""])
       ELSE LET w1 == [_disableAutoCloseTimeout(World, FALSE)
                          EXCEPT !.cbLog = @ \cup {"Menu-Right"}]
            IN \E w2 \in {renderMenu(w1, TRUE, 0, "null")} :
               \E r \in {navigateDir(Browser, w2, target, FALSE)} :
                  BbCommit("right", target,
                           [r EXCEPT !.w = _updateAutoCloseTimeout(@, FALSE)])

\* The file system changes under the Browser.
DirChange(dir, state) ==
    /\ dirState[dir] # state
    /\ dirState' = [dirState EXCEPT ![dir] = state]
    /\ bbCall' = [op |-> "dirChange", arg |-> dir, page |-> currentPage,
                  open |-> hasRegisteredKeys, failed |-> FALSE, from |-> ""]
    /\ UNCHANGED <<currentPage, currentPageIdx, currentPath, metaType>>
    /\ UNCHANGED <<rcVars, stVars, mnVars, lfVars, m2Vars>>

\* The Browser's keys, its menu's close and right keys and a changing file
\* system.
BbNext ==
    \/ \E forcePage \in {"files", "favorites", "playlist", "undefined"} :
          SwitchMenu(forcePage)
    \/ BbClose
    \/ \E target \in Dirs : BbRight(target)
    \/ \E dir \in Dirs, state \in {"ok", "unreadable", "missing"} : DirChange(dir, state)

\* A Browser on a menu with the clock frozen.
SpecBrowser == InitNav /\ [][BbNext]_vars

(***************************************************************************)
(* Claims about RandomCycle (checked under SpecCycle)                      *)
(***************************************************************************)
\* The outcomes of k successive getNext calls, the first from v and each
\* following one from the value the one before returned.
RECURSIVE Walk(_, _)
Walk(v, k) ==
    IF k = 0 THEN <<>>
    ELSE LET out == getNext(Num(v))
         IN IF out.threw THEN <<out>> ELSE <<out>> \o Walk(out.val, k - 1)

\* C1: whenever the count is n >= 1, following getNext from any v in [0, n)
\* for n steps never throws, visits each of the n values exactly once and
\* ends at v again.
C1_CycleVisitsAll ==
    _count >= 1 =>
        \A v \in 0..(_count - 1) :
            LET w == Walk(v, _count)
            IN /\ Len(w) = _count
               /\ \A i \in 1..Len(w) : ~w[i].threw
               /\ {w[i].val : i \in 1..Len(w)} = 0..(_count - 1)
               /\ w[_count].val = v

\* A getNext call that wrapped from the last position of a shuffled order of 3.
C1_Witness ==
    /\ _count = 3
    /\ _shuffled = <<2, 0, 1>>
    /\ rcCall = [op |-> "getNext", arg |-> Num(1), out |-> Ok(2)]

\* C2: on the current order getPrevious undoes getNext and getNext undoes
\* getPrevious, for every v in [0, count).
C2_NextPreviousInverse ==
    \A v \in 0..(_count - 1) :
        LET nx == getNext(Num(v))
            pv == getPrevious(Num(v))
        IN /\ ~nx.threw /\ ~pv.threw
           /\ getPrevious(Num(nx.val)) = Ok(v)
           /\ getNext(Num(pv.val)) = Ok(v)

\* A getPrevious call that wrapped from the first position to the last.
C2_Witness ==
    /\ _count = 3
    /\ _shuffled = <<2, 0, 1>>
    /\ rcCall = [op |-> "getPrevious", arg |-> Num(2), out |-> Ok(1)]

\* Whether a query argument is below 0, at or above the count, or no integer.
BadQueryArg(a) == a.kind # "int" \/ a.n < 0 \/ a.n >= _count

\* C3: getNext and getPrevious throw for every argument that is < 0, >= count
\* or not an integer, and for every argument before the first setCount; a
\* query that throws changes neither the count nor the order.
C3_QueriesThrowOutOfRange ==
    /\ [](/\ \A a \in QueryArgs :
                (BadQueryArg(a) \/ ~everSetCount) =>
                    getNext(a).threw /\ getPrevious(a).threw
          /\ (rcCall.op \in {"getNext", "getPrevious"} /\ BadQueryArg(rcCall.arg)) =>
                rcCall.out.threw)
    /\ [][(rcCall'.op \in {"getNext", "getPrevious"} /\ rcCall'.out.threw) =>
            (_count' = _count /\ _shuffled' = _shuffled)]_vars

\* A getNext call with the count itself as its argument, which threw.
C3_Witness ==
    /\ _count = 3
    /\ rcCall.op = "getNext"
    /\ rcCall.arg = Num(3)
    /\ rcCall.out.threw

(***************************************************************************)
(* Claims about Stack (checked under SpecStack)                            *)
(***************************************************************************)
\* What the i-th pop after the pushes of pushLog returns when the newest
\* `kept` of them are in the stack: they come back newest first, then the
\* empty sentinel.
ExpectedPop(i, kept) ==
    IF i <= kept THEN pushLog[Len(pushLog) - i + 1] ELSE Undefined

\* C4: with maxSize = k >= 1, once more than k entries were pushed, getCount()
\* is k, and the pops that follow return the k newest entries, newest first,
\* and the empty sentinel after them.
C4_BoundedKeepsNewest ==
    (stackMade /\ maxSize >= 1 /\ phase \in {"pushing", "popping"}
        /\ Len(pushLog) > maxSize) =>
        /\ phase = "pushing" => getCount = maxSize
        /\ \A i \in 1..Len(popLog) : popLog[i] = ExpectedPop(i, maxSize)

\* Three pushes onto a stack of size 2, then three pops.
C4_Witness ==
    /\ maxSize = 2
    /\ pushLog = <<1, 1, 2>>
    /\ popLog = <<2, 1, Undefined>>

\* C5: with maxSize = k >= 1, after any calls the stack holds at most k
\* entries, getCount() is their number (position = length - 1), isEmpty() is
\* true exactly when there are none, and a push onto a full stack removes the
\* oldest entry and nothing else.
C5_BoundedInvariant ==
    (stackMade /\ maxSize >= 1) =>
        /\ Len(stack) <= maxSize
        /\ position = Len(stack) - 1
        /\ getCount = Len(stack)
        /\ isEmpty <=> (Len(stack) = 0)
        /\ stCall.op = "push" =>
            stack = IF Len(prevStack) = maxSize
                    THEN Append(Tail(prevStack), stCall.arg.n)
                    ELSE Append(prevStack, stCall.arg.n)

\* A push onto a full stack of size 2, after pushes and pops were mixed.
C5_Witness ==
    /\ maxSize = 2
    /\ phase = "mixed"
    /\ stCall.op = "push"
    /\ prevStack = <<1, 2>>
    /\ stack = <<2, 1>>

\* C6: with maxSize = -1 no push evicts or hangs: after j pushes getCount()
\* is j and the stack holds all of them, and the pops that follow return them
\* newest first.
C6_UnboundedKeepsAll ==
    (stackMade /\ maxSize = -1) =>
        /\ ~stackHung
        /\ stCall.op = "push" => stack = Append(prevStack, stCall.arg.n)
        /\ phase = "pushing" => (getCount = Len(pushLog) /\ stack = pushLog)
        /\ phase = "popping" =>
            \A i \in 1..Len(popLog) : popLog[i] = ExpectedPop(i, Len(pushLog))

\* Four pushes onto an unbounded stack, all popped again.
C6_Witness ==
    /\ maxSize = -1
    /\ Len(pushLog) = 4
    /\ popLog = <<pushLog[4], pushLog[3], pushLog[2], pushLog[1]>>
    /\ pushLog[1] # pushLog[4]

\* C7: `new Stack(size)` throws and gives no object when size is 0 or not an
\* integer, and gives an empty stack of that size for -1 and every size >= 1.
C7_ConstructorChecksSize ==
    stCall.op = "new" =>
        LET size == stCall.arg
        IN /\ (size.kind # "int" \/ size.n = 0) => (stCall.out.threw /\ ~stackMade)
           /\ (size.kind = "int" /\ (size.n = -1 \/ size.n >= 1)) =>
                /\ ~stCall.out.threw
                /\ stackMade
                /\ maxSize = size.n
                /\ stack = <<>>
                /\ position = -1

\* A constructor call with size 0, which threw.
C7_Witness ==
    /\ stCall = [op |-> "new", arg |-> Num(0), out |-> Throw]
    /\ ~stackMade

\* C8: pop() on an empty stack returns the empty sentinel and leaves the stack
\* empty with getCount() = 0; clearStack leaves the stack empty from any state.
C8_EmptyPopAndClear ==
    /\ (stCall.op = "pop" /\ prevStack = <<>>) =>
        /\ stCall.out = Ok(Undefined)
        /\ stack = <<>>
        /\ getCount = 0
        /\ isEmpty
    /\ stCall.op = "clear" =>
        /\ stack = <<>>
        /\ position = -1
        /\ getCount = 0
        /\ isEmpty

\* A pop on a stack that one push and one pop had already emptied.
C8_Witness ==
    /\ stCall.op = "pop"
    /\ prevStack = <<>>
    /\ Len(pushLog) = 1
    /\ popLog = <<pushLog[1], Undefined>>

(***************************************************************************)
(* Claims about SelectionMenu's navigation (checked under SpecMenuNav)     *)
(***************************************************************************)
\* The last event was a key of `action` that _menuAction did not block, met
\* with a non-empty option list and a selection inside it.
Navigated(action) ==
    /\ mnCall.op = "action"
    /\ mnCall.action = action
    /\ ~mnCall.msg
    /\ mnCall.len >= 1
    /\ mnCall.sel >= 0 /\ mnCall.sel < mnCall.len

\* C9: on a list of L >= 1 options Menu-Up moves the selection from 0 to L-1
\* and from any other index down by one; Menu-Down moves it from L-1 to 0 and
\* from any other index up by one.
C9_SingleStepWraps ==
    /\ Navigated("Menu-Up") =>
        /\ Len(options) = mnCall.len
        /\ selectionIdx = IF mnCall.sel = 0 THEN mnCall.len - 1 ELSE mnCall.sel - 1
    /\ Navigated("Menu-Down") =>
        /\ Len(options) = mnCall.len
        /\ selectionIdx = IF mnCall.sel = mnCall.len - 1 THEN 0 ELSE mnCall.sel + 1

\* Menu-Down on the last of three options: the selection is 0 again.
C9_Witness ==
    /\ Navigated("Menu-Down")
    /\ mnCall.len = 3
    /\ mnCall.sel = 2
    /\ selectionIdx = 0

\* The larger and the smaller of two numbers.
Max2(a, b) == IF a >= b THEN a ELSE b
Min2(a, b) == IF a <= b THEN a ELSE b

\* C10: on a list of L >= 1 options Menu-Up-Fast moves the selection from i
\* to max(i - 10, 0) and Menu-Down-Fast to min(i + 10, L - 1): neither wraps.
C10_FastStepClamps ==
    /\ Navigated("Menu-Up-Fast") =>
        /\ Len(options) = mnCall.len
        /\ selectionIdx = Max2(mnCall.sel - 10, 0)
    /\ Navigated("Menu-Down-Fast") =>
        /\ Len(options) = mnCall.len
        /\ selectionIdx = Min2(mnCall.sel + 10, mnCall.len - 1)

\* Menu-Up-Fast from index 3 of twelve options: the selection is 0.
C10_Witness ==
    /\ Navigated("Menu-Up-Fast")
    /\ mnCall.len = 12
    /\ mnCall.sel = 3
    /\ selectionIdx = 0

C12_WindowHoldsSelection ==
    (currentMenuText.kind = "menu" /\ Len(options) >= 1) =>
        LET lines == currentMenuText.lines
            startIdx == lines[1].item
            endIdx == lines[Len(lines)].item
        IN /\ Len(lines) = Min2(maxLines, Len(options))
           /\ \A k \in 1..Len(lines) :
                /\ lines[k].item = startIdx + k - 1
                /\ lines[k].selected <=> (lines[k].item = selectionIdx)
           /\ 0 <= startIdx
           /\ startIdx <= selectionIdx
           /\ selectionIdx <= endIdx
           /\ endIdx <= Len(options) - 1
           /\ endIdx - startIdx + 1 = Min2(maxLines, Len(options))

\* Twelve options, ten lines, the last option selected: lines 2 to 11.
C12_Witness ==
    /\ Len(options) = 12
    /\ maxLines = 10
    /\ selectionIdx = 11
    /\ currentMenuText.kind = "menu"
    /\ currentMenuText.lines[1].item = 2
    /\ currentMenuText.lines[Len(currentMenuText.lines)].item = 11

(***************************************************************************)
(* Claims about messages and the open and closed menu (SpecMenuNav)        *)
(***************************************************************************)
\* C13: while a message is showing, a key of any action but Menu-Close
\* changes neither the options, the selection, the open menu, the message
\* and its timeout nor what is on screen, and invokes no callback; a key of
\* Menu-Close closes the menu and ends the message.
C13_MessageBlocksKeys ==
    [][(isShowingMessage /\ mnCall'.op = "action") =>
          IF mnCall'.action = "Menu-Close"
          THEN ~hasRegisteredKeys' /\ ~isShowingMessage' /\ hostKeys' = {}
          ELSE /\ UNCHANGED <<options, selectionIdx, hasRegisteredKeys, isShowingMessage,
                              currentMessageText, currentMenuText, stopMessageTimeout,
                              hostTimeouts, menuInterval, hostIntervals, hostKeys,
                              autoCloseActiveAt, osdText, osdFontSize>>
               /\ cbLog' = {}]_vars

\* A Menu-Left key, for which a callback is set, pressed during a message:
\* the message is still showing and no callback ran.
C13_Witness ==
    /\ mnCall.op = "action"
    /\ mnCall.action = "Menu-Left"
    /\ mnCall.cb = "noop"
    /\ mnCall.msg
    /\ isShowingMessage
    /\ cbLog = {}

\* C16: a show of the open menu leaves the saved and the current font size,
\* the key bindings, the redraw interval and a showing message with its
\* timeout as they are and does not invoke the open callback; a hide of the
\* closed menu changes nothing of the menu or of the host and does not
\* invoke the close callback.
C16_ShowHideIdempotent ==
    [][/\ (hasRegisteredKeys /\ mnCall'.op = "renderMenu") =>
            /\ UNCHANGED <<originalFontSize, osdFontSize, hasRegisteredKeys, hostKeys,
                           menuInterval, hostIntervals, isShowingMessage,
                           currentMessageText, stopMessageTimeout, hostTimeouts>>
            /\ "show" \notin cbLog'
       /\ (~hasRegisteredKeys /\ mnCall'.op = "hideMenu") =>
            /\ UNCHANGED <<options, selectionIdx, hasRegisteredKeys, isShowingMessage,
                           currentMessageText, currentMenuText, originalFontSize,
                           menuInterval, stopMessageTimeout, autoCloseActiveAt,
                           osdText, osdFontSize, hostKeys, hostIntervals, hostTimeouts>>
            /\ "hide" \notin cbLog']_vars

\* A show of the open menu while a message was showing: the message stays.
C16_Witness ==
    /\ mnCall.op = "renderMenu"
    /\ mnCall.open
    /\ mnCall.msg
    /\ isShowingMessage
    /\ stopMessageTimeout # Null
    /\ cbLog = {}

(***************************************************************************)
(* Claims about messages, timers and auto-close (SpecMenuTime)             *)
(***************************************************************************)
\* The seconds after which a message of the duration given expires.
MessageTicks(durationMs) ==
    IF durationMs.kind = "int" THEN (durationMs.n + 999) \div 1000 ELSE 1

\* C14: a message shown on the open menu ends; showMessage sets its timeout
\* to the duration given, the timeout runs no earlier than that and leaves
\* the menu open with no message and the menu text on screen, and a
\* Menu-Down key after it moves the selection as it does without a message.
C14_MessageEnds ==
    /\ isShowingMessage ~> ~isShowingMessage
    /\ [](/\ (mnCall.op = "showMessage" /\ mnCall.open) =>
                /\ isShowingMessage
                /\ \A t \in hostTimeouts : t.at = now + MessageTicks(mnCall.arg)
          /\ mnCall.op = "expiry" =>
                /\ hasRegisteredKeys
                /\ ~isShowingMessage
                /\ stopMessageTimeout = Null
                /\ hostTimeouts = {}
                /\ osdText = currentMenuText)
    /\ [][/\ mnCall'.op = "expiry" =>
                (isShowingMessage /\ \A t \in hostTimeouts : t.at <= now)
          /\ (mnCall.op = "expiry" /\ mnCall'.op = "action"
                  /\ mnCall'.action = "Menu-Down") =>
                selectionIdx' = IF selectionIdx = Len(options) - 1
                                THEN 0 ELSE selectionIdx + 1]_vars

\* The timeout of a message of 2000 ms, shown at second 1, ran at second 3.
C14_Witness ==
    /\ mnCall.op = "expiry"
    /\ mnCall.msg
    /\ now = 3
    /\ lastActivity = 3
    /\ hasRegisteredKeys
    /\ ~isShowingMessage

\* C15: whenever the menu goes from open to closed, by hideMenu, Menu-Close,
\* a callback or auto-close, the host's font size becomes the one it had
\* when the menu last went from closed to open, whatever it was set to from
\* outside and however often the menu was shown in between.
C15_FontSizeRestored ==
    [][(hasRegisteredKeys /\ ~hasRegisteredKeys') => osdFontSize' = fontAtOpen]_vars

\* The font size was set to 30 from outside, the menu opened after that and
\* auto-closed: the font size is 30, not the 55 of the start.
C15_Witness ==
    /\ mnCall.op = "tick"
    /\ mnCall.open
    /\ ~hasRegisteredKeys
    /\ fontAtOpen = 30
    /\ osdFontSize = 30

\* C17: while the menu is closed no redraw interval and no message timeout
\* is pending; while it is open exactly one redraw interval runs, the one
\* the menu holds.
C17_NoOrphanedTimers ==
    /\ ~hasRegisteredKeys =>
        /\ hostIntervals = {}
        /\ hostTimeouts = {}
        /\ menuInterval = Null
        /\ stopMessageTimeout = Null
    /\ hasRegisteredKeys =>
        /\ Cardinality(hostIntervals) = 1
        /\ hostIntervals = {menuInterval}

\* The menu auto-closed at second 4 after it had been open before.
C17_Witness ==
    /\ mnCall.op = "tick"
    /\ mnCall.open
    /\ ~hasRegisteredKeys
    /\ now = 4
    /\ hostIntervals = {}
    /\ hostTimeouts = {}

\* C18: at most one message timeout is pending, and one is pending exactly
\* when a message is showing: it is the one the menu holds; a showMessage
\* during a message puts its own text on screen and leaves one timeout, due
\* its own duration from now; and the timeout that runs is that one, due.
C18_OneMessageTimeout ==
    /\ [](/\ Cardinality(hostTimeouts) <= 1
          /\ isShowingMessage <=> (hostTimeouts # {})
          /\ isShowingMessage <=> (stopMessageTimeout # Null)
          /\ \A t \in hostTimeouts : t.id = stopMessageTimeout
          /\ (mnCall.op = "showMessage" /\ mnCall.msg) =>
                /\ currentMessageText = MsgText(mnCall.cb)
                /\ osdText = MsgText(mnCall.cb)
                /\ \E t \in hostTimeouts :
                      hostTimeouts = {t} /\ t.at = now + MessageTicks(mnCall.arg))
    /\ [][mnCall'.op = "expiry" =>
            (Cardinality(hostTimeouts) = 1 /\ \A t \in hostTimeouts : t.at <= now)]_vars

\* A second message of 2000 ms shown at second 1 over a first one: its
\* timeout, the only one, is due at second 3.
C18_Witness ==
    /\ mnCall.op = "showMessage"
    /\ mnCall.msg
    /\ mnCall.cb = "m2"
    /\ now = 1
    /\ currentMessageText = MsgText("m2")
    /\ \E t \in hostTimeouts : hostTimeouts = {t} /\ t.at = 3

\* C19: a tick of the redraw interval that finds a message showing leaves
\* the menu open, however long the message has been showing and whatever
\* started it.
C19_NoAutoCloseDuringMessage ==
    (mnCall.op = "tick" /\ mnCall.msg) => hasRegisteredKeys

\* C20: a tick closes the menu only when autoCloseDelay is above 0 and at
\* least autoCloseDelay seconds have passed since the menu last opened,
\* accepted a key action or ended a message.
C20_AutoCloseWaitsForDelay ==
    [][(hasRegisteredKeys /\ mnCall'.op = "tick" /\ ~hasRegisteredKeys') =>
          (autoCloseDelay > 0 /\ now - lastActivity >= autoCloseDelay)]_vars

\* With a delay of 2 the menu was last active at second 1 and a tick closed
\* it at second 3.
C20_Witness ==
    /\ mnCall.op = "tick"
    /\ mnCall.open
    /\ ~hasRegisteredKeys
    /\ autoCloseDelay = 2
    /\ lastActivity = 1
    /\ now = 3


(***************************************************************************)
(* Claims about the rendered lines (SpecMenuNav)                           *)
(***************************************************************************)
\* C30: in the lines renderMenu wrote for a list that is not empty, the
\* first line is "..." exactly when the window starts after option 0, the
\* last line is "..." exactly when it ends before the last option, every
\* other line shows its own option, and the selected line is never "...".
C30_DotsOnlyAtCutEnds ==
    (currentMenuText.kind = "menu" /\ Len(options) >= 1) =>
        LET lines == currentMenuText.lines
            last == Len(lines)
            startIdx == lines[1].item
            endIdx == lines[last].item
        IN \A k \in 1..last :
              /\ lines[k].dots <=> \/ (k = 1 /\ startIdx > 0)
                                   \/ (k = last /\ endIdx < Len(options) - 1)
              /\ lines[k].item = startIdx + k - 1
              /\ lines[k].selected => ~lines[k].dots

\* Twelve options in three lines, option 5 selected: "...", option 5, "...".
C30_Witness ==
    /\ Len(options) = 12
    /\ maxLines = 3
    /\ selectionIdx = 5
    /\ currentMenuText.kind = "menu"
    /\ Len(currentMenuText.lines) = 3
    /\ currentMenuText.lines[1].dots
    /\ currentMenuText.lines[2].selected
    /\ ~currentMenuText.lines[2].dots
    /\ currentMenuText.lines[3].dots

(***************************************************************************)
(* Claims about the key bindings (SpecMenuKeys)                            *)
(***************************************************************************)
\* The keys of a binding, as a set.
KeySet(binding) == {binding.keys[i] : i \in 1..Len(binding.keys)}

\* C22, as stated: in the binding table and in every key registration made
\* on open, repeatable is true exactly for Up, Down, Up-Fast and Down-Fast.
C22_RepeatableNavigationOnly ==
    menuMade =>
        /\ \A a \in Actions : keyBindings[a].repeatable <=> a \in NavActions
        /\ \A b \in hostKeys : b.repeatable <=> b.action \in NavActions

\* C22, amended: in the binding table and in every key registration made on
\* open, repeatable is true exactly for Up, Down, Up-Fast, Down-Fast and
\* Left, and false for Right, Open, Undo, Help and Close.
C22_RepeatableNavigationAndLeft ==
    menuMade =>
        /\ \A a \in Actions :
              keyBindings[a].repeatable <=> a \in NavActions \cup {"Menu-Left"}
        /\ \A b \in hostKeys :
              b.repeatable <=> b.action \in NavActions \cup {"Menu-Left"}

\* A menu made with an override of Menu-Open's keys is open: the key of
\* Menu-Left is registered as repeatable, the new key of Menu-Open is not.
C22_Witness ==
    /\ hasRegisteredKeys
    /\ mnNew.rebinds # <<>>
    /\ \E b \in hostKeys : b.action = "Menu-Left" /\ b.repeatable
    /\ \E b \in hostKeys : b.action = "Menu-Open" /\ b.key = <<"a">> /\ ~b.repeatable
    /\ \E b \in hostKeys : b.action = "Menu-Down" /\ b.repeatable

\* Whether the overrides, once merged into the defaults, bind one key under
\* two different actions.
SharedAfterMerge(rebinds) ==
    LET merged == ApplyRebinds(DefaultKeyBindings, rebinds, 1)
    IN /\ ~merged.threw
       /\ \E a, b \in Actions :
             a # b /\ KeySet(merged.val[a]) \cap KeySet(merged.val[b]) # {}

\* C23: the constructor throws whenever the merged overrides bind one key
\* under two different actions, and in every menu it returned no key is
\* bound under more than one action.
C23_NoKeyUnderTwoActions ==
    /\ (mnCall.op = "new" /\ SharedAfterMerge(mnNew.rebinds)) =>
           (mnNew.threw /\ ~menuMade)
    /\ menuMade =>
           \A a, b \in Actions :
               a # b => KeySet(keyBindings[a]) \cap KeySet(keyBindings[b]) = {}

\* Menu-Close overridden with " ENTER ", the default key of Menu-Open: a throw.
C23_Witness ==
    /\ mnCall.op = "new"
    /\ mnNew.rebinds = <<(<<"Menu-Close", <<Str(<<" ", "E", "N", "T", "E", "R", " ">>)>> >>)>>
    /\ mnNew.threw
    /\ ~menuMade

\* Whether an override names an action that is none of the ten, or lists a
\* key that is no string.
InvalidRebinds(rebinds) ==
    \E j \in 1..Len(rebinds) :
        \/ rebinds[j][1] \notin Actions
        \/ \E i \in 1..Len(rebinds[j][2]) : rebinds[j][2][i].kind # "string"

\* C24: the constructor throws, and returns no menu, when an override names
\* an action that is none of the ten or lists a key that is no string.
C24_InvalidOverrideThrows ==
    (mnCall.op = "new" /\ InvalidRebinds(mnNew.rebinds)) => (mnNew.threw /\ ~menuMade)

\* Menu-Open overridden with a string and a number: a throw, no menu.
C24_Witness ==
    /\ mnCall.op = "new"
    /\ mnNew.rebinds = <<(<<"Menu-Open", <<Str(<<"a">>), NonString>> >>)>>
    /\ mnNew.threw
    /\ ~menuMade

\* The keys of an override list, lower-cased and trimmed, the blank ones dropped.
NonBlank(k) == Len(k) > 0
Normalised(list) ==
    SelectSeq([i \in 1..Len(list) |-> Trim(toLowerCase(list[i].chars))], NonBlank)

\* C25, as stated: when the constructor has returned a menu the keys of an
\* overridden action are exactly the override's keys, lower-cased and
\* trimmed, for every override list, an empty one and one of blank strings
\* included.  (Menu-Help sorts the key lists later, so the order is the
\* override's only until then.)
C25_OverrideAlwaysReplaces ==
    (menuMade /\ mnCall.op = "new") =>
        \A j \in 1..Len(mnNew.rebinds) :
            keyBindings[mnNew.rebinds[j][1]].keys = Normalised(mnNew.rebinds[j][2])

\* C25, amended: when the constructor has returned a menu the keys of an
\* overridden action are exactly the override's keys, lower-cased and
\* trimmed, when the list holds a key that is not blank; an empty list or
\* one of blank strings leaves the action its default keys.
C25_OverrideWithKeysReplaces ==
    (menuMade /\ mnCall.op = "new") =>
        \A j \in 1..Len(mnNew.rebinds) :
            LET action == mnNew.rebinds[j][1]
                listed == Normalised(mnNew.rebinds[j][2])
            IN keyBindings[action].keys =
                   IF Len(listed) > 0 THEN listed ELSE DefaultKeyBindings[action].keys

\* Menu-Open overridden with " ", "b", a tab and "c": its keys are b and c.
C25_Witness ==
    /\ menuMade
    /\ mnCall.op = "new"
    /\ mnNew.rebinds = <<(<<"Menu-Open",
                           <<Str(<<" ">>), Str(<<"b">>), Str(<<"\t">>), Str(<<"c">>)>> >>)>>
    /\ keyBindings["Menu-Open"].keys = <<(<<"b">>), (<<"c">>)>>

\* C26, as stated: _menuAction called with a name that is none of the ten
\* throws to its caller.
C26_UnknownActionThrows ==
    (mnCall.op = "dispatch") => mnThrew

\* C26, amended: _menuAction called with a name that is none of the ten
\* returns without throwing and changes nothing of the menu; it reports the
\* name through mp.msg.error, unless a message is showing, which blocks it
\* in silence.
C26_UnknownActionLogged ==
    [][(mnCall'.op = "dispatch") =>
          /\ ~mnThrew'
          /\ hostErrors' = IF isShowingMessage
                           THEN <<>>
                           ELSE <<[kind |-> "unknownAction", action |-> mnCall'.action]>>
          /\ UNCHANGED <<options, selectionIdx, hasRegisteredKeys, isShowingMessage,
                         currentMessageText, currentMenuText, originalFontSize,
                         menuInterval, stopMessageTimeout, autoCloseActiveAt,
                         osdText, osdFontSize, hostKeys, hostIntervals, hostTimeouts>>
          /\ osdWrites' = <<>>
          /\ cbLog' = {}]_vars

\* The open menu was handed "Menu-Bogus": the error log holds the name.
C26_Witness ==
    /\ mnCall.op = "dispatch"
    /\ mnCall.action = "Menu-Bogus"
    /\ ~mnCall.msg
    /\ hasRegisteredKeys
    /\ ~mnThrew
    /\ hostErrors = <<[kind |-> "unknownAction", action |-> "Menu-Bogus"]>>

(***************************************************************************)
(* Claims about the display (SpecMenuShow)                                 *)
(***************************************************************************)
\* C28: a step that closes the menu writes the empty text to the display,
\* last; a step that begins and ends with the menu closed writes nothing to
\* the display; showMessage on the closed menu changes no state; and in
\* every closed state the handlers of a tick, of a message timeout and of
\* stopMessage, showMessage and renderMenu in mode 1 or 2 write nothing.
C28_ClosedMenuWritesNothing ==
    /\ [][/\ (hasRegisteredKeys /\ ~hasRegisteredKeys') =>
                /\ osdWrites' # <<>>
                /\ osdWrites'[Len(osdWrites')] = EmptyText
                /\ osdText' = EmptyText
          /\ (~hasRegisteredKeys /\ ~hasRegisteredKeys') =>
                /\ osdWrites' = <<>>
                /\ osdText' = osdText
          /\ (~hasRegisteredKeys /\ mnCall'.op = "showMessage") =>
                UNCHANGED <<options, selectionIdx, hasRegisteredKeys, isShowingMessage,
                            currentMessageText, currentMenuText, originalFontSize,
                            menuInterval, stopMessageTimeout, autoCloseActiveAt,
                            osdText, osdFontSize, hostKeys, hostIntervals, hostTimeouts>>
         ]_vars
    /\ [](~hasRegisteredKeys =>
             /\ _handleAutoClose(_renderActiveText(World), "noop").osdWrites = <<>>
             /\ stopMessage(World, FALSE).osdWrites = <<>>
             /\ \A d \in DurationArgs :
                   showMessage(World, MsgText("m1"), d, FALSE).osdWrites = <<>>
             /\ \A renderMode \in RenderModes :
                   renderMenu(World, FALSE, renderMode, "noop").osdWrites = <<>>)

\* The idle auto-close has just closed the menu: the tick redrew the menu
\* text and then wrote the empty text.
C28_Witness ==
    /\ mnCall.op = "tick"
    /\ mnCall.open
    /\ ~hasRegisteredKeys
    /\ Len(osdWrites) = 2
    /\ osdWrites[1].kind = "menu"
    /\ osdWrites[2] = EmptyText
    /\ osdText = EmptyText

(***************************************************************************)
(* Claims about the idle auto-close (SpecMenuIdleFair, SpecMenuThrow)      *)
(***************************************************************************)
\* C21: when the menu is open, with or without a message, its idle delay is
\* above 0, the callbacks have returned and from now on no key is pressed
\* and no call is made while the timers keep firing, the menu is eventually
\* closed, by a tick of the redraw interval.
C21_IdleMenuCloses ==
    (hasRegisteredKeys /\ autoCloseDelay > 0 /\ now > LastCallAt)
        ~> (~hasRegisteredKeys /\ mnCall.op = "tick" /\ mnCall.open)

\* The menu, left with a message showing, was closed by a tick after the
\* message had ended and the delay had passed.
C21_Witness ==
    /\ ~hasRegisteredKeys
    /\ mnCall.op = "tick"
    /\ mnCall.open
    /\ ~mnCall.msg
    /\ autoCloseDelay = 2
    /\ now > LastCallAt
    /\ now - lastActivity >= autoCloseDelay
    /\ lastActivity > LastCallAt

\* C27: a soft-disable does not outlast the next tick of the redraw
\* interval: on a menu with an idle delay above 0 the countdown is not
\* soft-disabled after a tick, also when the callback that was running threw.
C27_TickLiftsSoftDisable ==
    (mnCall.op = "tick" /\ autoCloseDelay > 0) => autoCloseActiveAt # -1

C34_NegativeSizeIsUnbounded ==
    (stackMade /\ maxSize < 0) =>
        /\ ~stackHung
        /\ phase = "pushing" => (getCount = Len(pushLog) /\ stack = pushLog)

\* C35: setCount throws for every count that is not a positive integer, 0
\* and the negative integers included.
C35_SetCountRejectsNonPositive ==
    (rcCall.op = "setCount" /\ ~(isInt(rcCall.arg) /\ rcCall.arg.n >= 1)) =>
        rcCall.out.threw

\* Whether arr holds each of 0 .. n-1 once and nothing else.
IsPermutation(arr, n) ==
    /\ Len(arr) = n
    /\ \A v \in 0..(n - 1) : \E i \in 1..n : arr[i] = v

\* C36: whenever the count is 1 or more, the order is a permutation of
\* [0, count); the count is what the last setCount that returned was given;
\* shuffleCycle leaves the count, and getNext and getPrevious leave the count
\* and the order.
C36_OrderIsPermutation ==
    /\ [](_count >= 1 => IsPermutation(_shuffled, _count))
    /\ [][/\ (rcCall'.op = "setCount" /\ ~rcCall'.out.threw) => _count' = rcCall'.arg.n
          /\ (rcCall'.op = "setCount" /\ rcCall'.out.threw) =>
                (_count' = _count /\ _shuffled' = _shuffled)
          /\ rcCall'.op = "shuffleCycle" => _count' = _count
          /\ rcCall'.op \in {"getNext", "getPrevious"} =>
                (_count' = _count /\ _shuffled' = _shuffled)
         ]_vars

\* A cycle of three was shuffled again into the order 2, 0, 1.
C36_Witness ==
    /\ rcCall.op = "shuffleCycle"
    /\ _count = 3
    /\ _shuffled = <<2, 0, 1>>

(***************************************************************************)
(* Claims about Leapfrog on a changing playlist (SpecLeapCount)            *)
(***************************************************************************)
\* The last step was a request for a random jump that reached the cycle.
RandomQueried ==
    /\ lfCall.op = "jump"
    /\ lfCall.offset = Named("random")
    /\ lfCall.out \in {"moved", "failed"}

\* C37: every notification of a playlist-count change empties the undo
\* history and marks the cycle for rebuilding; so whenever a random jump
\* queries the cycle, the cycle's count is the playlist count Leapfrog holds,
\* and from one count change to the next the random jumps follow one
\* permutation: a jump that finds the cycle built leaves its order alone, no
\* other step touches the cycle, and the cycle is marked for rebuilding only
\* by a count change or by a jump that failed.
C37_CountChangeRebuildsCycle ==
    /\ [](~rebuild => (_count = playlistCount /\ IsPermutation(_shuffled, _count)))
    /\ [][/\ lfCall'.op = "count" => (stack' = <<>> /\ position' = -1 /\ rebuild')
          /\ RandomQueried' => _count' = playlistCount'
          /\ (RandomQueried' /\ ~rebuild) => _shuffled' = _shuffled
          /\ ~RandomQueried' => (_shuffled' = _shuffled /\ _count' = _count)
          /\ (rebuild' /\ ~rebuild) => (lfCall'.op = "count" \/ lfCall'.out = "failed")]_vars

\* A count change is notified after the cycle was built for another count.
C37_Witness ==
    /\ lfCall.op = "count"
    /\ everSetCount
    /\ _count # playlistCount
    /\ playlistCount > 1
    /\ rebuild
    /\ stack = <<>>

\* C38: a random jump whose current position is outside the cycle (getNext
\* throws) aborts that request only: playlist-pos is not written, nothing is
\* pushed to the history, nothing is put on screen and the cycle is marked
\* for rebuilding; a jump fails in no other case, so a later random jump from
\* a position inside the playlist moves, and so does a jump to the first entry.
C38_FailedJumpAbortsOnly ==
    [][(lfCall'.op = "jump" /\ playlistCount # 0) =>
          /\ lfCall'.offset = Named("random") =>
                IF playlistPos \in 0..(playlistCount - 1)
                THEN lfCall'.out = "moved" /\ ~rebuild'
                ELSE /\ lfCall'.out = "failed"
                     /\ hostPlaylistPos' = hostPlaylistPos
                     /\ ~posChanged'
                     /\ stack' = stack
                     /\ lfCall'.osd = ""
                     /\ rebuild'
          /\ lfCall'.offset = Named("first") => lfCall'.out = "moved"
          /\ lfCall'.out = "failed" => lfCall'.offset = Named("random")]_vars

\* A random jump has failed with the position outside the cycle, and
\* the history it left alone holds an entry.
C38_Witness ==
    /\ lfCall.op = "jump"
    /\ lfCall.out = "failed"
    /\ playlistPos \notin 0..(playlistCount - 1)
    /\ stack # <<>>
    /\ rebuild

(***************************************************************************)
(* More claims about the key bindings (SpecMenuKeys)                       *)
(***************************************************************************)
\* The (action, key) pairs of a set of bindings held by mpv, and of the table.
BoundPairs == {<<b.action, b.key>> : b \in hostKeys}
TablePairs ==
    UNION {{<<a, keyBindings[a].keys[i]>> : i \in 1..Len(keyBindings[a].keys)} :
              a \in DOMAIN keyBindings}

\* C33: the bindings the menu holds registered with mpv are none while the
\* menu is closed and exactly the (action, key) pairs of its table while it
\* is open, so what was registered on open is removed on close, also once
\* Help has sorted the key lists in place.
C33_BindingsMatchTable ==
    menuMade =>
        /\ ~hasRegisteredKeys => hostKeys = {}
        /\ hasRegisteredKeys => BoundPairs = TablePairs

\* The menu was closed after Help had put the keys of Menu-Open in another
\* order than they were registered in.
C33_Witness ==
    /\ menuMade
    /\ mnNew.rebinds = <<(<<"Menu-Open",
                           <<Str(<<"c", "b">>), Str(<<"C">>), Str(<<"a">>), Str(<<"B">>)>> >>)>>
    /\ keyBindings["Menu-Open"].keys = <<(<<"a">>), (<<"b">>), (<<"c">>), (<<"c", "b">>)>>
    /\ mnCall.op = "hideMenu"
    /\ ~hasRegisteredKeys
    /\ hostKeys = {}

(***************************************************************************)
(* More claims about messages and callbacks                                *)
(***************************************************************************)
\* C31: while a message is on the menu, before a step and after it, every
\* write of the step to mpv's OSD carries the message text and so does the
\* screen; a renderMenu, or a setOptions with a renderMenu, called meanwhile
\* leaves the message on and only renews the cached menu text, which is what
\* the screen shows once the message ends with the menu open.
C31_MessageOwnsDisplay ==
    [][/\ (isShowingMessage /\ isShowingMessage') =>
             /\ \A i \in 1..Len(osdWrites') : osdWrites'[i] = currentMessageText'
             /\ osdText' = currentMessageText'
       /\ (isShowingMessage /\ mnCall'.op \in {"renderMenu", "loadOptions"}) =>
             /\ isShowingMessage'
             /\ currentMessageText' = currentMessageText
             /\ currentMenuText' = MenuText(RenderLines(options', selectionIdx', FALSE))
       /\ (isShowingMessage /\ ~isShowingMessage' /\ hasRegisteredKeys') =>
             /\ osdWrites' = <<currentMenuText'>>
             /\ osdText' = currentMenuText']_vars

\* Options were loaded while a message was on: the cached menu text is new,
\* the write to the OSD and the screen carry the message.
C31_Witness ==
    /\ mnCall.op = "loadOptions"
    /\ isShowingMessage
    /\ Len(options) = 3
    /\ currentMenuText = MenuText(RenderLines(options, selectionIdx, FALSE))
    /\ osdWrites = <<currentMessageText>>
    /\ osdText = currentMessageText
    /\ osdText # currentMenuText

\* No two neighbours of a sequence are the same.
Alternates(seq) == \A i \in 1..(Len(seq) - 1) : seq[i] # seq[i + 1]

\* C32: with an open and a close callback set, their invocations alternate,
\* the open callback first: within every call or event they alternate, the
\* first is the open callback exactly when the menu was closed, the last is
\* the open callback exactly when the menu is open afterwards, and a step
\* that invokes neither leaves the menu open or closed as it was.  So every
\* change from closed to open invokes the open callback once and every
\* change to closed (hideMenu, Menu-Close, the auto-close) the close
\* callback once, also when a callback calls back into the menu.
C32_CallbacksAlternate ==
    [][/\ Alternates(cbSeq')
       /\ cbSeq' # <<>> =>
             /\ (cbSeq'[1] = "show") <=> ~hasRegisteredKeys
             /\ (cbSeq'[Len(cbSeq')] = "show") <=> hasRegisteredKeys'
       /\ cbSeq' = <<>> => (hasRegisteredKeys' <=> hasRegisteredKeys)]_vars

\* The idle auto-close has closed the menu and the close callback has opened
\* it again: close callback, then open callback, and the menu is open.
C32_Witness ==
    /\ mnCall.op = "tick"
    /\ cbSeq = <<"hide", "show">>
    /\ hasRegisteredKeys

(***************************************************************************)
(* Claims about two menus on one mpv (SpecMenuTwo)                         *)
(***************************************************************************)
\* C40: with two menus sharing mpv's osd-font-size, whatever the order of
\* their opens and closes, once both are closed the font size is the one mpv
\* had before either was opened.
C40_FontRestoredAfterBoth ==
    (~hasRegisteredKeys /\ ~menu2.hasRegisteredKeys) => osdFontSize = fontBefore

(***************************************************************************)
(* Claims about Blackbox's pages (checked under SpecBrowser)               *)
(***************************************************************************)

\* C39: when navigateDir fails, the current page afterwards is the page that
\* was current before the call, "no page" included; so whenever the menu is
\* closed, currentPage is null.
C39_ClosedMenuHasNoPage ==
    /\ bbCall.failed => currentPage = bbCall.from
    /\ ~hasRegisteredKeys => currentPage = "null"

====
